---- MODULE Spec2Model ----
(***************************************************************************)
(* openapi-to-zod-schema: the converter (OpenAPI components.schemas ->     *)
(* zod schema registry) and the code generator (registry -> dependency     *)
(* map -> declaration sequence -> source text), as one pipeline run of     *)
(* codegen(spec).                                                          *)
(*                                                                         *)
(* An OpenAPI schema node is a record whose DOMAIN is the set of keys the  *)
(* JSON object has ("ref" stands for "$ref"); `"k" in schema` is           *)
(* "k" \in DOMAIN schema. A property mapping is the sequence of its        *)
(* Object.entries, <<key, value>> pairs in declaration order. A $ref       *)
(* string is kept as the sequence of its "/"-separated segments.           *)
(*                                                                         *)
(* A zod schema is a record with a "kind" field. The z.lazy registered     *)
(* for a name is [kind |-> "lazy", name |-> n]: the name stands for the    *)
(* object's identity, and its getter is the conversion of n's definition.  *)
(* Generated text is a sequence of tokens; "\n" is the line break.         *)
(***************************************************************************)
EXTENDS Integers, Sequences, FiniteSets, TLC

\* ------------------------------------------------------------------ bounds
\* named schemas in one input spec
MaxSchemas == 3
\* $ref occurrences in one input spec of the reference-graph family
MaxRefs == 3
\* properties of one object schema of the shape family
MaxProps == 2
\* members of one allOf / anyOf / oneOf list
MaxMembers == 2
\* checks of one string schema handed to the generator
MaxChecks == 2
\* levels of nesting of one instance handed to a validator
MaxDepth == 3

\* --------------------------------------------------------- sequence helpers
Range(s) == { s[i] : i \in DOMAIN s }

Last(s) == s[Len(s)]

RECURSIVE Flat(_)
\* Array.prototype.flat() over a sequence of sequences
Flat(ss) == IF ss = <<>> THEN <<>> ELSE Head(ss) \o Flat(Tail(ss))

RECURSIVE Join(_, _)
\* Array.prototype.join(sep) over a sequence of token sequences
Join(ss, sep) ==
  IF ss = <<>> THEN <<>>
  ELSE IF Len(ss) = 1 THEN Head(ss)
  ELSE Head(ss) \o sep \o Join(Tail(ss), sep)

\* the index of the first entry with this key, 0 when there is none
IndexOfKey(entries, k) ==
  IF \E i \in DOMAIN entries : entries[i][1] = k
  THEN CHOOSE i \in DOMAIN entries :
         entries[i][1] = k /\ \A j \in 1..(i - 1) : entries[j][1] # k
  ELSE 0

HasKey(entries, k) == IndexOfKey(entries, k) # 0

Lookup(entries, k) == entries[IndexOfKey(entries, k)][2]

Keys(entries) == [i \in DOMAIN entries |-> entries[i][1]]

\* ------------------------------------------------------- OpenAPI input nodes
\* a schema or property whose value is undefined / null
Undefined == [undefined |-> TRUE]

Truthy(v) == v # Undefined

Has(schema, k) == k \in DOMAIN schema

isRefSchema(schema) == Has(schema, "ref")
isAllOfSchema(schema) == Has(schema, "allOf")
isOneOfSchema(schema) == Has(schema, "oneOf")
isAnyOfSchema(schema) == Has(schema, "anyOf")
isObjectSchema(schema) == Has(schema, "type") /\ schema.type = "object"
isArraySchema(schema) == Has(schema, "type") /\ schema.type = "array"
isStringSchema(schema) == Has(schema, "type") /\ schema.type = "string"
isNumberSchema(schema) ==
  Has(schema, "type") /\ (schema.type = "number" \/ schema.type = "integer")
isBooleanSchema(schema) == Has(schema, "type") /\ schema.type = "boolean"

\* schema.nullable as a condition
IsNullable(schema) == Has(schema, "nullable") /\ schema.nullable

\* ----------------------------------------------------------------- zod nodes
ZObject(shape) == [kind |-> "object", shape |-> shape]
ZArray(element) == [kind |-> "array", element |-> element]
ZUnion(options) == [kind |-> "union", options |-> options]
ZString == [kind |-> "string", checks |-> <<>>]
ZNumber == [kind |-> "number"]
ZBoolean == [kind |-> "boolean"]
ZEnum(values) == [kind |-> "enum", values |-> values]
ZLiteral(value) == [kind |-> "literal", value |-> value]
ZNullable(inner) == [kind |-> "nullable", inner |-> inner]
ZOptional(inner) == [kind |-> "optional", inner |-> inner]
ZLazy(name) == [kind |-> "lazy", name |-> name]
ZNever == [kind |-> "never"]
ZUnknown == [kind |-> "unknown"]

\* ----------------------------------------------------------------- converter
\* this.spec.components.schemas[name], Undefined when the key is absent
SpecSchema(schemas, name) ==
  IF HasKey(schemas, name) THEN Lookup(schemas, name) ELSE Undefined

\* ref.split("/").pop()
RefName(ref) == Last(ref)

\* handleRef without the test of the target: a lazy for every name
handleRef_NoFallback(ref, schemas, reg) == [kind |-> "lazy", name |-> Last(ref)]

\* handleRef: the registry entry of the name, registering it when it is
\* unseen and defined; Unknown when the target has no definition
handleRef(ref, schemas, reg) ==
  LET schemaName == RefName(ref) IN
  IF schemaName \notin Range(reg) /\ ~Truthy(SpecSchema(schemas, schemaName))
  THEN ZUnknown
  ELSE ZLazy(schemaName)

\* a spread in which a key already present keeps its value
RECURSIVE Spread_KeepFirst(_, _)
Spread_KeepFirst(a, b) ==
  IF b = <<>> THEN a
  ELSE Spread_KeepFirst(IF HasKey(a, Head(b)[1]) THEN a ELSE Append(a, Head(b)),
                        Tail(b))

\* { ...a, ...b }: keys of a keep their place and take b's value, new keys
\* of b follow in b's order
RECURSIVE Spread(_, _)
Spread(a, b) ==
  IF b = <<>> THEN a
  ELSE LET k == Head(b)[1]
           i == IndexOfKey(a, k)
       IN Spread(IF i = 0 THEN Append(a, Head(b))
                 ELSE [a EXCEPT ![i] = Head(b)], Tail(b))

RECURSIVE MergeAllOf(_, _)
\* the loop of handleAllOf over the members, from the merged schema so far
MergeAllOf(merged, members) ==
  IF members = <<>> THEN merged
  ELSE LET schema == Head(members)
           withProps ==
             IF isObjectSchema(schema) /\ Has(schema, "properties")
             THEN [merged EXCEPT !.properties = Spread(@, schema.properties)]
             ELSE merged
           withRequired ==
             IF isObjectSchema(schema) /\ Has(schema, "required")
             THEN [withProps EXCEPT !.required = @ \o schema.required]
             ELSE withProps
       IN MergeAllOf(withRequired, Tail(members))

RECURSIVE convertSchema(_, _, _)
RECURSIVE handleAllOf(_, _, _)
RECURSIVE handleAnyOf(_, _, _)
RECURSIVE convertObjectSchema(_, _, _)
RECURSIVE convertArraySchema(_, _, _)
RECURSIVE ConvertProperties(_, _, _, _)

\* convertStringSchema with z.enum for an enum of any length
convertStringSchema_AlwaysEnum(schema) ==
  IF Has(schema, "enum") THEN [kind |-> "enum", values |-> schema.enum]
  ELSE IF IsNullable(schema) THEN ZNullable(ZString) ELSE ZString

convertStringSchema(schema) ==
  IF Has(schema, "enum")
  THEN IF Len(schema.enum) = 1 THEN ZLiteral(schema.enum[1])
       ELSE ZEnum(schema.enum)
  ELSE IF IsNullable(schema) THEN ZNullable(ZString) ELSE ZString

convertNumberSchema(schema) ==
  IF IsNullable(schema) THEN ZNullable(ZNumber) ELSE ZNumber

convertBooleanSchema(schema) ==
  IF IsNullable(schema) THEN ZNullable(ZBoolean) ELSE ZBoolean

\* the loop of convertObjectSchema with the test of requiredFields inverted
ConvertProperties_Inverted(props, requiredFields, schemas, reg) ==
  IF props = <<>> THEN <<>>
  ELSE LET key == Head(props)[1]
           value == Head(props)[2]
           rest == ConvertProperties(Tail(props), requiredFields, schemas, reg)
       IN IF Truthy(value)
          THEN LET fieldSchema == convertSchema(value, schemas, reg)
               IN << <<key, IF key \in requiredFields THEN ZOptional(fieldSchema)
                            ELSE fieldSchema>> >> \o rest
          ELSE rest

\* the loop of convertObjectSchema: undefined property values are skipped
ConvertProperties(props, requiredFields, schemas, reg) ==
  IF props = <<>> THEN <<>>
  ELSE LET key == Head(props)[1]
           value == Head(props)[2]
           rest == ConvertProperties(Tail(props), requiredFields, schemas, reg)
       IN IF Truthy(value)
          THEN LET fieldSchema == convertSchema(value, schemas, reg)
               IN << <<key, IF key \in requiredFields THEN fieldSchema
                            ELSE ZOptional(fieldSchema)>> >> \o rest
          ELSE rest

convertObjectSchema(schema, schemas, reg) ==
  LET requiredFields ==
        IF Has(schema, "required") THEN Range(schema.required) ELSE {}
      properties ==
        IF Has(schema, "properties") THEN schema.properties ELSE <<>>
      objectSchema ==
        ZObject(ConvertProperties(properties, requiredFields, schemas, reg))
  IN IF IsNullable(schema) THEN ZNullable(objectSchema) ELSE objectSchema

convertArraySchema(schema, schemas, reg) ==
  LET itemSchema ==
        IF Has(schema, "items") /\ Truthy(schema.items)
        THEN convertSchema(schema.items, schemas, reg)
        ELSE ZUnknown
  IN IF IsNullable(schema) THEN ZNullable(ZArray(itemSchema))
     ELSE ZArray(itemSchema)

handleAllOf(members, schemas, reg) ==
  convertObjectSchema(
    MergeAllOf([type |-> "object", properties |-> <<>>, required |-> <<>>],
               members),
    schemas, reg)

\* handleAnyOf without the case of a single member
handleAnyOf_NoUnwrap(members, schemas, reg) ==
  LET convertedSchemas ==
        [i \in DOMAIN members |-> convertSchema(members[i], schemas, reg)]
  IN IF Len(convertedSchemas) = 0 THEN ZNever
     ELSE ZUnion(convertedSchemas)

handleAnyOf(members, schemas, reg) ==
  LET convertedSchemas ==
        [i \in DOMAIN members |-> convertSchema(members[i], schemas, reg)]
  IN IF Len(convertedSchemas) = 0 THEN ZNever
     ELSE IF Len(convertedSchemas) = 1 THEN convertedSchemas[1]
     ELSE ZUnion(convertedSchemas)

\* convertSchema with the tests of anyOf and oneOf in the other order
convertSchema_OneOfFirst(schema, schemas, reg) ==
  IF isRefSchema(schema) THEN handleRef(schema.ref, schemas, reg)
  ELSE IF isAllOfSchema(schema) THEN handleAllOf(schema.allOf, schemas, reg)
  ELSE IF isOneOfSchema(schema) THEN handleAnyOf(schema.oneOf, schemas, reg)
  ELSE IF isAnyOfSchema(schema) THEN handleAnyOf(schema.anyOf, schemas, reg)
  ELSE IF isObjectSchema(schema) THEN convertObjectSchema(schema, schemas, reg)
  ELSE IF isArraySchema(schema) THEN convertArraySchema(schema, schemas, reg)
  ELSE IF isStringSchema(schema) THEN convertStringSchema(schema)
  ELSE IF isNumberSchema(schema) THEN convertNumberSchema(schema)
  ELSE IF isBooleanSchema(schema) THEN convertBooleanSchema(schema)
  ELSE ZUnknown

convertSchema(schema, schemas, reg) ==
  IF isRefSchema(schema) THEN handleRef(schema.ref, schemas, reg)
  ELSE IF isAllOfSchema(schema) THEN handleAllOf(schema.allOf, schemas, reg)
  ELSE IF isAnyOfSchema(schema) THEN handleAnyOf(schema.anyOf, schemas, reg)
  ELSE IF isOneOfSchema(schema) THEN handleAnyOf(schema.oneOf, schemas, reg)
  ELSE IF isObjectSchema(schema) THEN convertObjectSchema(schema, schemas, reg)
  ELSE IF isArraySchema(schema) THEN convertArraySchema(schema, schemas, reg)
  ELSE IF isStringSchema(schema) THEN convertStringSchema(schema)
  ELSE IF isNumberSchema(schema) THEN convertNumberSchema(schema)
  ELSE IF isBooleanSchema(schema) THEN convertBooleanSchema(schema)
  ELSE ZUnknown

\* the schema names a zod tree holds lazies of, in traversal order
RECURSIVE LazyNames(_)
LazyNames(z) ==
  IF z.kind = "object"
  THEN Flat([i \in DOMAIN z.shape |-> LazyNames(z.shape[i][2])])
  ELSE IF z.kind = "array" THEN LazyNames(z.element)
  ELSE IF z.kind = "union"
  THEN Flat([i \in DOMAIN z.options |-> LazyNames(z.options[i])])
  ELSE IF z.kind \in {"nullable", "optional"} THEN LazyNames(z.inner)
  ELSE IF z.kind = "lazy" THEN <<z.name>>
  ELSE <<>>

\* the sequence without its repeated elements, first occurrences kept
RECURSIVE Distinct(_)
Distinct(s) ==
  IF s = <<>> THEN <<>>
  ELSE LET front == Distinct(SubSeq(s, 1, Len(s) - 1))
       IN IF Last(s) \in Range(front) THEN front ELSE Append(front, Last(s))

\* the getter of the z.lazy registered for a name: () => convertSchema(def)
Getter(name, schemas, reg) == convertSchema(SpecSchema(schemas, name), schemas, reg)

\* the names handleRef adds to this.zodSchemas while the getter of `name` runs
GetterRegisters(name, schemas, reg) ==
  SelectSeq(Distinct(LazyNames(Getter(name, schemas, reg))),
            LAMBDA n : n \notin Range(reg))

RECURSIVE Warns(_, _, _)
\* the names handleRef warns of while convertSchema(schema) runs, in order
Warns(schema, schemas, reg) ==
  IF isRefSchema(schema)
  THEN IF handleRef(schema.ref, schemas, reg) = ZUnknown
       THEN <<RefName(schema.ref)>> ELSE <<>>
  ELSE IF isAllOfSchema(schema)
  THEN Warns(MergeAllOf([type |-> "object", properties |-> <<>>,
                         required |-> <<>>], schema.allOf),
             schemas, reg)
  ELSE IF isAnyOfSchema(schema)
  THEN Flat([i \in DOMAIN schema.anyOf |-> Warns(schema.anyOf[i], schemas, reg)])
  ELSE IF isOneOfSchema(schema)
  THEN Flat([i \in DOMAIN schema.oneOf |-> Warns(schema.oneOf[i], schemas, reg)])
  ELSE IF isObjectSchema(schema)
  THEN IF Has(schema, "properties")
       THEN Flat([i \in DOMAIN schema.properties |->
                    IF Truthy(schema.properties[i][2])
                    THEN Warns(schema.properties[i][2], schemas, reg)
                    ELSE <<>>])
       ELSE <<>>
  ELSE IF isArraySchema(schema)
  THEN IF Has(schema, "items") /\ Truthy(schema.items)
       THEN Warns(schema.items, schemas, reg) ELSE <<>>
  ELSE <<>>

\* the warnings of one run of the getter of the z.lazy registered for a name
GetterWarns(name, schemas, reg) == Warns(SpecSchema(schemas, name), schemas, reg)

\* the getter caches its first result: later calls convert nothing
CallGetter_Cached(calls, name) ==
  IF name \in Range(calls) THEN calls ELSE Append(calls, name)

\* one call of lazySchema._def.getter(): the definition is converted anew
CallGetter(calls, name) == Append(calls, name)

\* this.schemas[name] instanceof z.ZodLazy: every entry convert() registered
IsLazyEntry(name, given) == ~HasKey(given, name)

\* convert() registering the first entry only, the others left to handleRef
convert_FirstOnly(schemas) ==
  IF schemas # <<>> /\ Truthy(schemas[1][2]) THEN <<schemas[1][1]>> ELSE <<>>

\* convert() without the test of the definition
convert_Unconditional(schemas) == Keys(schemas)

\* convert(): one z.lazy per entry of components.schemas that has a definition
RECURSIVE convert(_)
convert(schemas) ==
  IF schemas = <<>> THEN <<>>
  ELSE LET front == convert(SubSeq(schemas, 1, Len(schemas) - 1))
           name == Last(schemas)[1]
       IN IF Truthy(Last(schemas)[2]) /\ name \notin Range(front)
          THEN Append(front, name)
          ELSE front

\* ------------------------------------------------------------ code generator
\* codegen's default argument
prefix == ""

NL == "\n"

\* `${prefix}${name}Schema`
Ident(name) == prefix \o name \o "Schema"

\* the property keys that match /^[$A-Z_a-z][\w$]*$/
IdentifierKeys == {"id", "name", "kind", "a", "b", "c", "d"}

formatObjectKey(key) ==
  IF key \in IdentifierKeys THEN <<key>> ELSE <<"\"", key, "\"">>

Quoted(v) == <<"\"", v, "\"">>

RECURSIVE indent(_)
\* split("\n"), two spaces before every line, join("\n")
indent(code) ==
  IF code = <<>> THEN <<"  ">>
  ELSE LET front == indent(SubSeq(code, 1, Len(code) - 1))
       IN IF Last(code) = NL THEN front \o <<NL, "  ">>
          ELSE Append(front, Last(code))

\* the marker a thrown Error leaves in place of the text
Thrown == "throw new Error(unsupported check kind)"

RECURSIVE renderChecks(_)

\* the switch over check.kind with a default that renders nothing
renderChecks_SkipUnknown(checks) ==
  IF checks = <<>> THEN <<>>
  ELSE LET check == Head(checks)
       IN (IF check.kind = "min" THEN <<".min(", ToString(check.value), ")">>
           ELSE IF check.kind = "max" THEN <<".max(", ToString(check.value), ")">>
           ELSE IF check.kind = "date" THEN <<".date()">>
           ELSE <<>>) \o renderChecks(Tail(checks))

renderChecks(checks) ==
  IF checks = <<>> THEN <<>>
  ELSE LET check == Head(checks)
       IN (IF check.kind = "min" THEN <<".min(", ToString(check.value), ")">>
           ELSE IF check.kind = "max" THEN <<".max(", ToString(check.value), ")">>
           ELSE IF check.kind = "date" THEN <<".date()">>
           ELSE <<Thrown>>) \o renderChecks(Tail(checks))

\* renderLazy without the test of generatedSchemas
renderLazy_NoGeneratedTest(referencedName, generated, generating) ==
  IF referencedName \in generating
  THEN <<"z.lazy(() => ", Ident(referencedName), ")">>
  ELSE <<Ident(referencedName)>>

\* the ZodLazy branch for a lazy found in this.schemas
renderLazy(referencedName, generated, generating) ==
  IF referencedName \in generating
  THEN <<"z.lazy(() => ", Ident(referencedName), ")">>
  ELSE IF referencedName \notin generated
  THEN <<"z.lazy(() => ", Ident(referencedName), ")">>
  ELSE <<Ident(referencedName)>>

\* Object.entries(this.schemas).find(([, s]) => s === schema) finds a name
IsRegistered(schema, reg) == schema.kind = "lazy" /\ schema.name \in Range(reg)

RECURSIVE generateSchemaCode(_, _, _, _, _)
generateSchemaCode(schema, schemas, reg, generated, generating) ==
  IF /\ IsRegistered(schema, reg)
     /\ schema.name \in generated
     /\ schema.name \notin generating
  THEN <<Ident(schema.name)>>
  ELSE IF schema.kind = "object"
  THEN LET properties ==
             Join([i \in DOMAIN schema.shape |->
                     formatObjectKey(schema.shape[i][1]) \o <<": ">>
                     \o generateSchemaCode(schema.shape[i][2], schemas, reg,
                                           generated, generating)],
                  <<",", NL>>)
       IN <<"z.object({", NL>> \o indent(properties) \o <<NL, "})">>
  ELSE IF schema.kind = "array"
  THEN <<"z.array(">>
       \o generateSchemaCode(schema.element, schemas, reg, generated, generating)
       \o <<")">>
  ELSE IF schema.kind = "union"
  THEN <<"z.union([">>
       \o Join([i \in DOMAIN schema.options |->
                  generateSchemaCode(schema.options[i], schemas, reg,
                                     generated, generating)],
               <<", ">>)
       \o <<"])">>
  ELSE IF schema.kind = "string"
  THEN <<"z.string()">> \o renderChecks(schema.checks)
  ELSE IF schema.kind = "number" THEN <<"z.number()">>
  ELSE IF schema.kind = "boolean" THEN <<"z.boolean()">>
  ELSE IF schema.kind = "enum"
  THEN IF Len(schema.values) = 1
       THEN <<"z.literal(">> \o Quoted(schema.values[1]) \o <<")">>
       ELSE <<"z.enum([">>
            \o Join([i \in DOMAIN schema.values |-> Quoted(schema.values[i])],
                    <<", ">>)
            \o <<"])">>
  ELSE IF schema.kind = "literal"
  THEN <<"z.literal(">> \o Quoted(schema.value) \o <<")">>
  ELSE IF schema.kind = "nullable"
  THEN generateSchemaCode(schema.inner, schemas, reg, generated, generating)
       \o <<".nullable()">>
  ELSE IF schema.kind = "optional"
  THEN generateSchemaCode(schema.inner, schemas, reg, generated, generating)
       \o <<".optional()">>
  ELSE IF schema.kind = "lazy"
  THEN IF schema.name \in Range(reg)
       THEN renderLazy(schema.name, generated, generating)
       ELSE <<"z.lazy(() => ">>
            \o generateSchemaCode(Getter(schema.name, schemas, reg), schemas,
                                  reg, generated, generating)
            \o <<")">>
  ELSE IF schema.kind = "never" THEN <<"z.never()">>
  ELSE <<"z.unknown()">>

RECURSIVE extractSchemaNames(_, _, _)
\* extractSchemaNames calling the getter of a registered z.lazy as well: the
\* names its body references follow its own name
extractSchemaNames_Expand(schema, schemas, reg) ==
  IF schema.kind = "object"
  THEN Flat([i \in DOMAIN schema.shape |->
               extractSchemaNames(schema.shape[i][2], schemas, reg)])
  ELSE IF schema.kind = "array"
  THEN extractSchemaNames(schema.element, schemas, reg)
  ELSE IF schema.kind = "union"
  THEN Flat([i \in DOMAIN schema.options |->
               extractSchemaNames(schema.options[i], schemas, reg)])
  ELSE IF schema.kind \in {"nullable", "optional"}
  THEN extractSchemaNames(schema.inner, schemas, reg)
  ELSE IF schema.kind = "lazy"
  THEN <<schema.name>> \o LazyNames(Getter(schema.name, schemas, reg))
  ELSE <<>>

extractSchemaNames(schema, schemas, reg) ==
  IF schema.kind = "object"
  THEN Flat([i \in DOMAIN schema.shape |->
               extractSchemaNames(schema.shape[i][2], schemas, reg)])
  ELSE IF schema.kind = "array"
  THEN extractSchemaNames(schema.element, schemas, reg)
  ELSE IF schema.kind = "union"
  THEN Flat([i \in DOMAIN schema.options |->
               extractSchemaNames(schema.options[i], schemas, reg)])
  ELSE IF schema.kind = "nullable"
  THEN extractSchemaNames(schema.inner, schemas, reg)
  ELSE IF schema.kind = "optional"
  THEN extractSchemaNames(schema.inner, schemas, reg)
  ELSE IF schema.kind = "lazy"
  THEN IF schema.name \in Range(reg) THEN <<schema.name>>
       ELSE extractSchemaNames(Getter(schema.name, schemas, reg), schemas, reg)
  ELSE <<>>

\* every entry of this.schemas is a z.lazy: its getter's result is analysed
getReferencingSchemaNames(name, schemas, reg) ==
  extractSchemaNames(Getter(name, schemas, reg), schemas, reg)

\* ----------------------------------------------------------------- sequencer
\* result.push(name) in place of the splice
Splice_Push(result, targetPosition, name) == Append(result, name)

\* result.splice(targetPosition, 1, name): the element there is replaced
Splice_Replace(result, targetPosition, name) ==
  LET p == IF targetPosition > Len(result) THEN Len(result) ELSE targetPosition
  IN SubSeq(result, 1, p) \o <<name>> \o SubSeq(result, p + 2, Len(result))

\* result.splice(targetPosition, 0, name), targetPosition counted from 0
Splice(result, targetPosition, name) ==
  LET p == IF targetPosition > Len(result) THEN Len(result) ELSE targetPosition
  IN SubSeq(result, 1, p) \o <<name>> \o SubSeq(result, p + 1, Len(result))

\* dependencyMap.delete(name)
MapDelete(map, name) == SelectSeq(map, LAMBDA e : e[1] # name)

RECURSIVE processElement(_, _, _)
RECURSIVE processDependencies(_, _, _, _)

\* the for loop without targetPosition += insertedElementCountByDependency
processDependencies_NoAdvance(st, targetPosition, depdendencies, k) ==
  IF k > Len(depdendencies) THEN st
  ELSE LET r == processElement([st EXCEPT !.count = 0], targetPosition,
                               depdendencies[k])
       IN processDependencies([r EXCEPT !.count = st.count + r.count],
                              targetPosition, depdendencies, k + 1)

\* the for loop of processElement over the dependencies left, from the state
\* st = [map, result, count] with count the insertedElementCount so far
processDependencies(st, targetPosition, depdendencies, k) ==
  IF k > Len(depdendencies) THEN st
  ELSE LET r == processElement([st EXCEPT !.count = 0], targetPosition,
                               depdendencies[k])
       IN processDependencies([r EXCEPT !.count = st.count + r.count],
                              targetPosition + r.count, depdendencies, k + 1)

\* processElement returning early, before the delete, on a self-reference
processElement_SelfGuard(st, targetPosition, name) ==
  IF ~HasKey(st.map, name) THEN [st EXCEPT !.count = 0]
  ELSE IF name \in Range(Lookup(st.map, name)) THEN [st EXCEPT !.count = 0]
  ELSE LET depdendencies == Lookup(st.map, name)
           placed == [map |-> MapDelete(st.map, name),
                      result |-> Splice(st.result, targetPosition, name),
                      count |-> 0]
           after == processDependencies(placed, targetPosition, depdendencies, 1)
       IN [after EXCEPT !.count = after.count + 1]

\* processElement returning insertedElementCount, the name itself not counted
processElement_OwnNotCounted(st, targetPosition, name) ==
  IF ~HasKey(st.map, name) THEN [st EXCEPT !.count = 0]
  ELSE LET depdendencies == Lookup(st.map, name)
           placed == [map |-> MapDelete(st.map, name),
                      result |-> Splice(st.result, targetPosition, name),
                      count |-> 0]
       IN processDependencies(placed, targetPosition, depdendencies, 1)

\* processElement(targetPosition, name) on the state st; count is its return
processElement(st, targetPosition, name) ==
  IF ~HasKey(st.map, name) THEN [st EXCEPT !.count = 0]
  ELSE LET depdendencies == Lookup(st.map, name)
           placed == [map |-> MapDelete(st.map, name),
                      result |-> Splice(st.result, targetPosition, name),
                      count |-> 0]
           after == processDependencies(placed, targetPosition, depdendencies, 1)
       IN [after EXCEPT !.count = after.count + 1]

\* --------------------------------------------------------------- the inputs
SchemaNames == <<"A", "B", "C", "D", "E">>

PropertyKeys == <<"a", "b", "c", "d", "e", "f">>

Ref(name) == [ref |-> <<"#", "components", "schemas", name>>]

\* the j-th referencing property of a schema of the reference-graph family:
\* a required $ref, an optional array of $ref, an optional $ref, ...
RefProperty(j, target) ==
  <<PropertyKeys[j],
    IF j % 2 = 0 THEN [type |-> "array", items |-> Ref(target)] ELSE Ref(target)>>

RefObject(targets) ==
  [type |-> "object",
   properties |-> [j \in DOMAIN targets |-> RefProperty(j, targets[j])],
   required |-> <<"a">>]

RECURSIVE Sum(_)
Sum(v) == IF v = <<>> THEN 0 ELSE Head(v) + Sum(Tail(v))

\* how many references each of n schemas holds, at most MaxRefs in all
RefCounts(n) == { v \in [1..n -> 0..MaxRefs] : Sum(v) <= MaxRefs }

\* the dependency list of schema i, cut out of the flat list of all targets
TargetsOf(i, counts, flat) ==
  SubSeq(flat, Sum(SubSeq(counts, 1, i - 1)) + 1, Sum(SubSeq(counts, 1, i)))

\* the spec whose n schemas are objects referencing each other as told
GraphSpec(n, counts, flat) ==
  [i \in 1..n |-> <<SchemaNames[i], RefObject(TargetsOf(i, counts, flat))>>]

\* specs whose schemas are objects referencing each other in any way
IsGraphSpec(s) ==
  \E n \in 0..MaxSchemas : \E counts \in RefCounts(n) :
    \E flat \in [1..Sum(counts) -> { SchemaNames[i] : i \in 1..n }] :
      s = GraphSpec(n, counts, flat)

Leaves ==
  { [type |-> "string"], [type |-> "integer"],
    [type |-> "string", enum |-> <<"x">>],
    Ref("B"), Ref("Missing") }

ShapeKeys == <<"id", "deep-Prop", "name", "kind">>

ObjectShapes ==
  UNION { { n @@ [type |-> "object",
                  properties |-> [j \in 1..k |-> <<ShapeKeys[j], vals[j]>>],
                  required |-> req]
            : vals \in [1..k -> Leaves \cup {Undefined}],
              req \in { <<>>, <<"id">>, <<"deep-Prop", "id">> },
              n \in { <<>>, [nullable |-> TRUE] } }
          : k \in 0..MaxProps }

AllOfMembers ==
  { [type |-> "object", properties |-> << <<"id", [type |-> "string"]>> >>,
     required |-> <<"id">>],
    [type |-> "object", properties |-> << <<"id", [type |-> "number"]>>,
                                          <<"name", Ref("B")>> >>],
    [type |-> "object", properties |-> << <<"name", [type |-> "boolean"]>>,
                                          <<"id", Undefined>> >>,
     required |-> <<"name", "name">>],
    [type |-> "object", required |-> <<"kind">>],
    [properties |-> << <<"kind", [type |-> "string"]>> >>, required |-> <<"id">>],
    Ref("B") }

MemberLists(S) == UNION { [1..k -> S] : k \in 0..MaxMembers }

AllOfShapes == { [allOf |-> ms] : ms \in MemberLists(AllOfMembers) }

AnyOfShapes ==
  UNION { { [anyOf |-> ms], [oneOf |-> ms],
            [oneOf |-> ms, nullable |-> TRUE] }
          : ms \in MemberLists(Leaves \cup { [type |-> "object"] }) }

\* specs of a schema A of every shape and a plain object B
ShapeSpecs ==
  { << <<"A", d>>, <<"B", [type |-> "object"]>> >>
    : d \in ObjectShapes \cup AllOfShapes \cup AnyOfShapes }

\* specs some of whose names have no definition
SparseSpecs ==
  UNION { { [i \in 1..n |-> <<SchemaNames[i], defs[i]>>]
            : defs \in [1..n -> { Undefined, [type |-> "boolean"], Ref("A") }] }
          : n \in 1..MaxSchemas }

\* a node with no keyword at all
NoKey == [k \in {} |-> TRUE]

\* the named object schema the nodes below reference
KindObject(v) ==
  [type |-> "object",
   properties |-> << <<"kind", [type |-> "string", enum |-> <<v>>]>>,
                     <<"name", [type |-> "string"]>> >>,
   required |-> <<"kind">>]

\* what a node may hold under "type" and the keys that go with it
TypeParts ==
  { NoKey,
    [type |-> "null"],
    [type |-> "object", properties |-> << <<"id", [type |-> "string"]>> >>,
     required |-> <<"id">>],
    [type |-> "array", items |-> [type |-> "string"]],
    [type |-> "string"],
    [type |-> "string", enum |-> <<"x">>],
    [type |-> "string", enum |-> <<"x", "y">>],
    [type |-> "string", minLength |-> 1],
    [type |-> "string", maxLength |-> 5],
    [type |-> "string", minLength |-> 1, maxLength |-> 5, format |-> "date"],
    [type |-> "string", format |-> "date"],
    [type |-> "number"],
    [type |-> "integer"],
    [type |-> "boolean"] }

\* nodes holding any of $ref, allOf, anyOf, oneOf, type side by side, with or
\* without nullable
KeywordNodes ==
  { r @@ a @@ y @@ o @@ t @@ n :
      r \in { NoKey, Ref("B"), Ref("Missing") },
      a \in { NoKey, [allOf |-> << [type |-> "object",
                                    properties |-> << <<"id", [type |-> "number"]>> >>,
                                    required |-> <<"id">>] >>] },
      y \in { NoKey, [anyOf |-> << [type |-> "string"], [type |-> "integer"] >>] },
      o \in { NoKey, [oneOf |-> << [type |-> "boolean"], Ref("Missing") >>] },
      t \in TypeParts,
      n \in { NoKey, [nullable |-> TRUE] } }

UnionMembers ==
  { KindObject("u"), KindObject("v"), Ref("B"), [type |-> "string"],
    [type |-> "object", properties |-> << <<"name", [type |-> "string"]>> >>] }

\* oneOf / anyOf lists of two or more members, some of them objects that
\* hold a one-value enum under the same key
UnionNodes ==
  UNION { { [oneOf |-> ms], [anyOf |-> ms] }
          : ms \in UNION { [1..k -> UnionMembers] : k \in 2..MaxMembers } }

\* specs of a schema A that is such a node, or an object holding it as a
\* property, and an object B
NodeSpecs ==
  UNION { { << <<"A", d>>, <<"B", KindObject("s")>> >>,
            << <<"A", [type |-> "object", properties |-> << <<"id", d>> >>,
                       required |-> <<"id">>]>>,
               <<"B", KindObject("s")>> >> }
          : d \in KeywordNodes \cup UnionNodes }

\* the checks a ZodString may carry; the generator knows the first three
Checks ==
  { [kind |-> "min", value |-> 1], [kind |-> "max", value |-> 5],
    [kind |-> "date"], [kind |-> "email"] }

CheckLists == UNION { [1..k -> Checks] : k \in 0..MaxChecks }

ZStringWith(checks) == [kind |-> "string", checks |-> checks]

\* zod schemas that are no conversion of any OpenAPI node
GivenSmall ==
  { ZStringWith(cs) : cs \in { c \in CheckLists : Len(c) <= 1 } }
  \cup { ZEnum(<<"x">>), ZEnum(<<"x", "y">>), ZLiteral("x") }

GivenTrees ==
  { ZStringWith(cs) : cs \in CheckLists }
  \cup GivenSmall
  \cup { ZObject(<< <<"id", ZOptional(s)>> >>) : s \in GivenSmall }

\* registries of one or two schemas handed to the generator as they are
GivenRegistries ==
  { << <<"A", t>> >> : t \in GivenTrees }
  \cup { << <<"A", t>>, <<"B", u>> >> : t \in GivenTrees, u \in GivenSmall }

\* the values a validator is handed: a property that is not there, a string,
\* an array, an object with its entries in order
Absent == [t |-> "undefined"]

Str == [t |-> "string"]

Arr(items) == [t |-> "array", items |-> items]

Obj(fields) == [t |-> "object", fields |-> fields]

NoInstance == [root |-> "", value |-> Absent]

RECURSIVE Values(_, _, _)
RECURSIVE FieldLists(_, _, _)

\* the entries of the instances of an object: every property left out or
\* present with one of its values
FieldLists(schemas, props, n) ==
  IF props = <<>> THEN { <<>> }
  ELSE { head \o rest :
           head \in { <<>> } \cup { << <<Head(props)[1], v>> >> :
                                      v \in Values(schemas, Head(props)[2], n) },
           rest \in FieldLists(schemas, Tail(props), n) }

\* the instances of a node, nested through at most n references, whose
\* objects hold or lack each of their properties
Values(schemas, node, n) ==
  IF isRefSchema(node)
  THEN IF n = 0 THEN {}
       ELSE Values(schemas, SpecSchema(schemas, RefName(node.ref)), n - 1)
  ELSE IF isObjectSchema(node)
  THEN { Obj(fs) : fs \in FieldLists(schemas, node.properties, n) }
  ELSE IF isArraySchema(node)
  THEN { Arr(<<>>) } \cup { Arr(<<v>>) : v \in Values(schemas, node.items, n) }
  ELSE { Str }

\* specs of object schemas that reference themselves or each other
RecursiveSpecs ==
  { << <<"Unit", [type |-> "object",
                  properties |-> << <<"uid", [type |-> "string"]>>,
                                    <<"parentUnit", Ref("Unit")>> >>,
                  required |-> <<"uid">>]>> >>,
    << <<"Parent", [type |-> "object",
                    properties |-> << <<"name", [type |-> "string"]>>,
                                      <<"children", [type |-> "array",
                                                     items |-> Ref("Child")]>> >>,
                    required |-> <<"name">>]>>,
       <<"Child", [type |-> "object",
                   properties |-> << <<"name", [type |-> "string"]>>,
                                     <<"parent", Ref("Parent")>> >>,
                   required |-> <<"name">>]>> >> }

\* ------------------------------------------------------------------ the run
VARIABLES
  spec,                \* Object.entries(spec.components.schemas)
  pc,                  \* where codegen(spec) stands
  zodSchemas,          \* the registry: its names, in insertion order
  todo,                \* the entries the running reduce / map has not visited
  dependencyMap,       \* Map entries <<name, dependencies>>, insertion order
  result,              \* the sequencer's result
  generatedSchemas,
  currentlyGenerating,
  schemaDefinitions,   \* what the map callback returned, per visited name
  output,              \* the text codegen returns
  getterCalls,         \* the names whose getter ran, in call order
  warnings,            \* the names console.warn reported as not found
  givenSchemas,        \* registry entries <<name, schema>> that are no z.lazy
  outputFile,          \* main's outputFile; "" stands for null
  written,             \* what main wrote: [to |-> file or "stdout", text |-> ..]
  exitCode,            \* the exit code of the process
  returned,            \* the texts earlier calls of codegen returned
  instance,            \* [root |-> name, value |-> ..]: a value to validate
  parsed,              \* the outcome of safeParse, "" before it ran
  argv,                \* process.argv.slice(2)
  world,               \* what the file system and the network hold
  call,                \* [targetPosition, name] of a call of processElement
  inserted             \* what that call returned

\* codegen called as a function: no command line, and a file system that
\* takes every write
NoWorld ==
  [readable |-> TRUE, parses |-> TRUE, isSpec |-> TRUE, content |-> <<>>,
   writable |-> TRUE]

NoCall == [targetPosition |-> 0, name |-> ""]

vars == <<spec, pc, zodSchemas, todo, dependencyMap, result, generatedSchemas,
          currentlyGenerating, schemaDefinitions, output, getterCalls, warnings,
          givenSchemas, outputFile, written, exitCode, returned, instance,
          parsed, argv, world, call, inserted>>

\* what a run of codegen leaves alone: its caller's state and the registry
\* entries handed to the generator as they are
mainVars ==
  <<givenSchemas, outputFile, written, exitCode, returned, instance, parsed,
    argv, world, call, inserted>>

\* the state of a call of codegen(spec) before its first step
Fresh ==
  /\ todo = <<>>
  /\ dependencyMap = <<>>
  /\ result = <<>>
  /\ generatedSchemas = {}
  /\ currentlyGenerating = {}
  /\ schemaDefinitions = <<>>
  /\ output = <<>>
  /\ getterCalls = <<>>
  /\ warnings = <<>>
  /\ written = <<>>
  /\ exitCode = 0
  /\ returned = <<>>
  /\ parsed = ""
  /\ call = NoCall
  /\ inserted = 0

Init ==
  /\ \/ IsGraphSpec(spec)
     \/ spec \in ShapeSpecs
     \/ spec \in SparseSpecs
  /\ pc = "start"
  /\ zodSchemas = <<>>
  /\ givenSchemas = <<>>
  /\ outputFile = ""
  /\ instance = NoInstance
  /\ argv = <<>>
  /\ world = NoWorld
  /\ Fresh

\* converter.convert()
Convert ==
  /\ pc = "start"
  /\ world.isSpec
  /\ zodSchemas' = convert(spec)
  /\ pc' = "converted"
  /\ UNCHANGED <<spec, todo, dependencyMap, result, generatedSchemas,
                 currentlyGenerating, schemaDefinitions, output, getterCalls,
                 warnings>>
  /\ UNCHANGED mainVars

\* the constructor with the two sets shared by every generator
Construct_SharedSets ==
  /\ pc = "converted"
  /\ todo' = zodSchemas
  /\ pc' = IF zodSchemas = <<>> THEN "sequencing" ELSE "analysing"
  /\ UNCHANGED <<spec, zodSchemas, dependencyMap, result, schemaDefinitions,
                 output, getterCalls, warnings, generatedSchemas,
                 currentlyGenerating>>
  /\ UNCHANGED mainVars

\* new ZodSchemaCodeGenerator(zodSchemas, prefix); generateCode() starts its
\* reduce over Object.entries(this.schemas)
Construct ==
  /\ pc = "converted"
  /\ generatedSchemas' = {}
  /\ currentlyGenerating' = {}
  /\ todo' = zodSchemas
  /\ pc' = IF zodSchemas = <<>> THEN "sequencing" ELSE "analysing"
  /\ UNCHANGED <<spec, zodSchemas, dependencyMap, result, schemaDefinitions,
                 output, getterCalls, warnings>>
  /\ UNCHANGED mainVars

\* Map.prototype.set: an existing key keeps its place
MapSet(map, name, value) ==
  IF HasKey(map, name) THEN [map EXCEPT ![IndexOfKey(map, name)] = <<name, value>>]
  ELSE Append(map, <<name, value>>)

\* one callback of the reduce: dependencyMap.set(name, getReferencingSchemaNames(schema))
AddDependencies ==
  /\ pc = "analysing"
  /\ todo # <<>>
  /\ LET name == Head(todo)
     IN IF IsLazyEntry(name, givenSchemas)
        THEN /\ dependencyMap' =
                  MapSet(dependencyMap, name,
                         getReferencingSchemaNames(name, spec, zodSchemas))
             /\ zodSchemas' = zodSchemas \o GetterRegisters(name, spec, zodSchemas)
             /\ getterCalls' = CallGetter(getterCalls, name)
             /\ warnings' = warnings \o GetterWarns(name, spec, zodSchemas)
        ELSE /\ dependencyMap' =
                  MapSet(dependencyMap, name,
                         extractSchemaNames(Lookup(givenSchemas, name), spec,
                                            zodSchemas))
             /\ UNCHANGED <<zodSchemas, getterCalls, warnings>>
  /\ todo' = Tail(todo)
  /\ pc' = IF Tail(todo) = <<>> THEN "sequencing" ELSE "analysing"
  /\ UNCHANGED <<spec, result, generatedSchemas, currentlyGenerating,
                 schemaDefinitions, output>>
  /\ UNCHANGED mainVars

\* the turn calling processElement(0, name): the picked name goes to the front
SequenceStep_AtFront ==
  /\ pc = "sequencing"
  /\ dependencyMap # <<>>
  /\ LET name == dependencyMap[1][1]
         r == processElement([map |-> dependencyMap, result |-> result, count |-> 0],
                             0, name)
     IN /\ dependencyMap' = r.map
        /\ result' = r.result
  /\ UNCHANGED <<spec, pc, zodSchemas, todo, generatedSchemas,
                 currentlyGenerating, schemaDefinitions, output, getterCalls,
                 warnings>>
  /\ UNCHANGED mainVars

\* one turn of the while loop of generateSchemaSequenceFrom
SequenceStep ==
  /\ pc = "sequencing"
  /\ dependencyMap # <<>>
  /\ LET name == dependencyMap[1][1]
         r == processElement([map |-> dependencyMap, result |-> result, count |-> 0],
                             Len(result), name)
     IN /\ dependencyMap' = r.map
        /\ result' = r.result
  /\ UNCHANGED <<spec, pc, zodSchemas, todo, generatedSchemas,
                 currentlyGenerating, schemaDefinitions, output, getterCalls,
                 warnings>>
  /\ UNCHANGED mainVars

\* the loop finds the map empty and returns result: schemasToGenerate
SequenceDone ==
  /\ pc = "sequencing"
  /\ dependencyMap = <<>>
  /\ todo' = result
  /\ pc' = "generating"
  /\ UNCHANGED <<spec, zodSchemas, dependencyMap, result, generatedSchemas,
                 currentlyGenerating, schemaDefinitions, output, getterCalls,
                 warnings>>
  /\ UNCHANGED mainVars

\* the declaration without its export keyword
Declaration_NoExport(name, schemaCode) ==
  <<"const ", Ident(name), " = ">> \o schemaCode \o <<";">>

Declaration(name, schemaCode) ==
  <<"export const ", Ident(name), " = ">> \o schemaCode \o <<";">>

\* the callback without this.currentlyGenerating.delete(name)
GenerateDeclaration_NoDelete ==
  /\ pc = "generating"
  /\ todo # <<>>
  /\ LET name == Head(todo)
     IN IF name \in currentlyGenerating
        THEN /\ schemaDefinitions' =
                  Append(schemaDefinitions,
                         [name |-> name, schema |-> ZLazy(name), text |-> <<>>])
             /\ pc' = "generating"
             /\ UNCHANGED <<zodSchemas, generatedSchemas, currentlyGenerating,
                            getterCalls, warnings>>
        ELSE LET lazy == IsLazyEntry(name, givenSchemas)
                 schema == IF lazy THEN Getter(name, spec, zodSchemas)
                           ELSE Lookup(givenSchemas, name)
                 schemaCode ==
                   generateSchemaCode(schema, spec, zodSchemas, generatedSchemas,
                                      currentlyGenerating \cup {name})
             IN /\ getterCalls' =
                     IF lazy THEN CallGetter(getterCalls, name) ELSE getterCalls
                /\ warnings' =
                     IF lazy THEN warnings \o GetterWarns(name, spec, zodSchemas)
                     ELSE warnings
                /\ zodSchemas' =
                     IF lazy THEN zodSchemas \o GetterRegisters(name, spec, zodSchemas)
                     ELSE zodSchemas
                /\ IF Thrown \in Range(schemaCode)
                   THEN /\ pc' = "failed"
                        /\ currentlyGenerating' = currentlyGenerating \cup {name}
                        /\ UNCHANGED <<generatedSchemas, schemaDefinitions>>
                   ELSE /\ pc' = "generating"
                        /\ currentlyGenerating' = currentlyGenerating \cup {name}
                        /\ generatedSchemas' = generatedSchemas \cup {name}
                        /\ schemaDefinitions' =
                             Append(schemaDefinitions,
                                    [name |-> name, schema |-> schema,
                                     text |-> Declaration(name, schemaCode)])
  /\ todo' = Tail(todo)
  /\ UNCHANGED <<spec, dependencyMap, result, output>>
  /\ UNCHANGED mainVars

\* one callback of the map over schemasToGenerate
GenerateDeclaration ==
  /\ pc = "generating"
  /\ todo # <<>>
  /\ LET name == Head(todo)
     IN IF name \in currentlyGenerating
        THEN /\ schemaDefinitions' =
                  Append(schemaDefinitions,
                         [name |-> name, schema |-> ZLazy(name), text |-> <<>>])
             /\ pc' = "generating"
             /\ UNCHANGED <<zodSchemas, generatedSchemas, currentlyGenerating,
                            getterCalls, warnings>>
        ELSE LET lazy == IsLazyEntry(name, givenSchemas)
                 schema == IF lazy THEN Getter(name, spec, zodSchemas)
                           ELSE Lookup(givenSchemas, name)
                 schemaCode ==
                   generateSchemaCode(schema, spec, zodSchemas, generatedSchemas,
                                      currentlyGenerating \cup {name})
             IN /\ getterCalls' =
                     IF lazy THEN CallGetter(getterCalls, name) ELSE getterCalls
                /\ warnings' =
                     IF lazy THEN warnings \o GetterWarns(name, spec, zodSchemas)
                     ELSE warnings
                /\ zodSchemas' =
                     IF lazy THEN zodSchemas \o GetterRegisters(name, spec, zodSchemas)
                     ELSE zodSchemas
                /\ IF Thrown \in Range(schemaCode)
                   THEN /\ pc' = "failed"
                        /\ currentlyGenerating' = currentlyGenerating \cup {name}
                        /\ UNCHANGED <<generatedSchemas, schemaDefinitions>>
                   ELSE /\ pc' = "generating"
                        /\ currentlyGenerating' = currentlyGenerating \ {name}
                        /\ generatedSchemas' = generatedSchemas \cup {name}
                        /\ schemaDefinitions' =
                             Append(schemaDefinitions,
                                    [name |-> name, schema |-> schema,
                                     text |-> Declaration(name, schemaCode)])
  /\ todo' = Tail(todo)
  /\ UNCHANGED <<spec, dependencyMap, result, output>>
  /\ UNCHANGED mainVars

imports == <<"import { z } from 'zod';", NL, NL>>

\* .filter(Boolean).join("\n\n") and the return of generateCode
Finish ==
  /\ pc = "generating"
  /\ todo = <<>>
  /\ output' =
       imports \o Join([i \in DOMAIN SelectSeq(schemaDefinitions, LAMBDA d : d.text # <<>>) |->
                          SelectSeq(schemaDefinitions, LAMBDA d : d.text # <<>>)[i].text],
                       <<NL, NL>>)
  /\ pc' = "done"
  /\ UNCHANGED <<spec, zodSchemas, todo, dependencyMap, result, generatedSchemas,
                 currentlyGenerating, schemaDefinitions, getterCalls, warnings>>
  /\ UNCHANGED mainVars

Next ==
  \/ Convert
  \/ Construct
  \/ AddDependencies
  \/ SequenceStep
  \/ SequenceDone
  \/ GenerateDeclaration
  \/ Finish

Spec == Init /\ [][Next]_vars

\* main: the code codegen returned goes to outputFile or to the console
Emit ==
  /\ pc = "done"
  /\ outputFile = "" \/ world.writable
  /\ written' =
       IF outputFile # ""
       THEN written \o << [to |-> outputFile, text |-> output],
                          [to |-> "stdout",
                           text |-> <<"Zod schema generated and saved to ",
                                      outputFile>>] >>
       ELSE Append(written, [to |-> "stdout", text |-> output])
  /\ pc' = "exited"
  /\ UNCHANGED <<spec, zodSchemas, todo, dependencyMap, result, generatedSchemas,
                 currentlyGenerating, schemaDefinitions, output, getterCalls,
                 warnings, givenSchemas, outputFile, exitCode, returned,
                 instance, parsed, argv, world, call, inserted>>

\* main's catch without its process.exit(1): the error is only reported
Catch_NoExit ==
  /\ pc = "failed"
  /\ written' = Append(written, [to |-> "stderr", text |-> <<"Error:", Thrown>>])
  /\ pc' = "exited"
  /\ UNCHANGED <<spec, zodSchemas, todo, dependencyMap, result, generatedSchemas,
                 currentlyGenerating, schemaDefinitions, output, getterCalls,
                 warnings, givenSchemas, outputFile, returned, instance, parsed,
                 argv, world, call, inserted, exitCode>>

\* main's catch: the error is reported and the process exits with 1
Catch ==
  /\ pc = "failed"
  /\ written' = Append(written, [to |-> "stderr", text |-> <<"Error:", Thrown>>])
  /\ exitCode' = 1
  /\ pc' = "exited"
  /\ UNCHANGED <<spec, zodSchemas, todo, dependencyMap, result, generatedSchemas,
                 currentlyGenerating, schemaDefinitions, output, getterCalls,
                 warnings, givenSchemas, outputFile, returned, instance, parsed,
                 argv, world, call, inserted>>

\* the try block of main over a spec of one node of every kind, or from the
\* construction of the generator over a registry of schemas handed to it
UnitInit ==
  /\ Fresh
  /\ instance = NoInstance
  /\ argv = <<>>
  /\ world = NoWorld
  /\ \/ /\ spec \in NodeSpecs
        /\ pc = "start"
        /\ zodSchemas = <<>>
        /\ givenSchemas = <<>>
        /\ outputFile = ""
     \/ /\ spec = <<>>
        /\ pc = "converted"
        /\ givenSchemas \in GivenRegistries
        /\ zodSchemas = Keys(givenSchemas)
        /\ outputFile \in {"", "out.ts"}

UnitNext ==
  \/ Next
  \/ Emit
  \/ Catch

UnitSpec == UnitInit /\ [][UnitNext]_vars

RECURSIVE safeParse(_, _, _, _)
\* schema.safeParse(value).success
safeParse(schema, value, schemas, reg) ==
  IF schema.kind = "optional"
  THEN value = Absent \/ safeParse(schema.inner, value, schemas, reg)
  ELSE IF schema.kind = "nullable"
  THEN value.t = "null" \/ safeParse(schema.inner, value, schemas, reg)
  ELSE IF schema.kind = "lazy"
  THEN safeParse(Getter(schema.name, schemas, reg), value, schemas, reg)
  ELSE IF schema.kind = "object"
  THEN /\ value.t = "object"
       /\ \A i \in DOMAIN schema.shape :
            safeParse(schema.shape[i][2],
                      IF HasKey(value.fields, schema.shape[i][1])
                      THEN Lookup(value.fields, schema.shape[i][1]) ELSE Absent,
                      schemas, reg)
  ELSE IF schema.kind = "array"
  THEN /\ value.t = "array"
       /\ \A i \in DOMAIN value.items :
            safeParse(schema.element, value.items[i], schemas, reg)
  ELSE IF schema.kind = "union"
  THEN \E i \in DOMAIN schema.options :
         safeParse(schema.options[i], value, schemas, reg)
  ELSE IF schema.kind \in {"string", "enum", "literal"} THEN value.t = "string"
  ELSE IF schema.kind = "number" THEN value.t = "number"
  ELSE IF schema.kind = "boolean" THEN value.t = "boolean"
  ELSE schema.kind = "unknown"

\* zodSchemas.map[root].safeParse(value) on the registry convert() returned
Validate ==
  /\ pc = "converted"
  /\ instance # NoInstance
  /\ parsed' = IF safeParse(ZLazy(instance.root), instance.value, spec, zodSchemas)
               THEN "success" ELSE "failure"
  /\ pc' = "validated"
  /\ UNCHANGED <<spec, zodSchemas, todo, dependencyMap, result, generatedSchemas,
                 currentlyGenerating, schemaDefinitions, output, getterCalls,
                 warnings, givenSchemas, outputFile, written, exitCode, returned,
                 instance, argv, world, call, inserted>>

\* convertOpenAPISpecToZodSchemas(spec) over schemas that reference themselves
\* or each other, and an instance of one of them
ValidateInit ==
  /\ Fresh
  /\ argv = <<>>
  /\ world = NoWorld
  /\ spec \in RecursiveSpecs
  /\ pc = "start"
  /\ zodSchemas = <<>>
  /\ givenSchemas = <<>>
  /\ outputFile = ""
  /\ \E i \in DOMAIN spec :
       \E v \in Values(spec, Ref(spec[i][1]), MaxDepth) :
         instance = [root |-> spec[i][1], value |-> v]

ValidateNext ==
  \/ Convert
  \/ Validate

ValidateSpec == ValidateInit /\ [][ValidateNext]_vars

\* the caller keeps the text and calls codegen once more on the same spec:
\* the locals of the call start anew, and the converter and the generator of
\* the call before stay behind until Convert and Construct make new ones
Rerun ==
  /\ pc = "done"
  /\ returned = <<>>
  /\ returned' = Append(returned, output)
  /\ pc' = "start"
  /\ todo' = <<>>
  /\ dependencyMap' = <<>>
  /\ result' = <<>>
  /\ schemaDefinitions' = <<>>
  /\ output' = <<>>
  /\ getterCalls' = <<>>
  /\ warnings' = <<>>
  /\ UNCHANGED <<spec, zodSchemas, generatedSchemas, currentlyGenerating,
                 givenSchemas, outputFile, written, exitCode, instance, parsed,
                 argv, world, call, inserted>>

RerunNext ==
  \/ Next
  \/ Rerun

RerunSpec == Init /\ [][RerunNext]_vars

\* ------------------------------------------------ a call of processElement
\* the sequencer in the middle of its work: of n names some are placed, in
\* result, and the others are left in the map with their dependency lists;
\* processElement is called for any name at any position of result
PlaceInit ==
  /\ spec = <<>>
  /\ pc = "placing"
  /\ zodSchemas = <<>>
  /\ todo = <<>>
  /\ generatedSchemas = {}
  /\ currentlyGenerating = {}
  /\ schemaDefinitions = <<>>
  /\ output = <<>>
  /\ getterCalls = <<>>
  /\ warnings = <<>>
  /\ givenSchemas = <<>>
  /\ outputFile = ""
  /\ written = <<>>
  /\ exitCode = 0
  /\ returned = <<>>
  /\ instance = NoInstance
  /\ parsed = ""
  /\ argv = <<>>
  /\ world = NoWorld
  /\ inserted = 0
  /\ \E n \in 1..MaxSchemas : \E counts \in RefCounts(n) :
       \E placed \in SUBSET { i \in 1..n : counts[i] = 0 } :
         \E flat \in [1..Sum(counts) -> { SchemaNames[i] : i \in 1..n }] :
           /\ dependencyMap =
                SelectSeq([i \in 1..n |-> <<SchemaNames[i], TargetsOf(i, counts, flat)>>],
                          LAMBDA e : \A i \in placed : SchemaNames[i] # e[1])
           /\ result =
                SelectSeq(SubSeq(SchemaNames, 1, n),
                          LAMBDA x : \E i \in placed : SchemaNames[i] = x)
           /\ \E P \in 0..Len(result) : \E i \in 1..n :
                call = [targetPosition |-> P, name |-> SchemaNames[i]]

\* processElement(call.targetPosition, call.name)
Place ==
  /\ pc = "placing"
  /\ LET r == processElement([map |-> dependencyMap, result |-> result, count |-> 0],
                             call.targetPosition, call.name)
     IN /\ dependencyMap' = r.map
        /\ result' = r.result
        /\ inserted' = r.count
  /\ pc' = "placed"
  /\ UNCHANGED <<spec, zodSchemas, todo, generatedSchemas, currentlyGenerating,
                 schemaDefinitions, output, getterCalls, warnings, givenSchemas,
                 outputFile, written, exitCode, returned, instance, parsed,
                 argv, world, call>>

PlaceNext == Place

PlaceSpec == PlaceInit /\ [][PlaceNext]_vars

\* ------------------------------------------------------- the command line
\* the paths main is handed: files of every extension, and a URL
InputPaths == {"spec.json", "spec.yml", "spec.txt", "https://host/spec.yaml"}

\* input.endsWith(".yaml"), ".yml", ".json": the extension readSpec finds, ""
\* when it finds none of the three
Extension(input) ==
  CASE input = "https://host/spec.yaml" -> ".yaml"
    [] input = "spec.yml" -> ".yml"
    [] input = "spec.json" -> ".json"
    [] OTHER -> ""

\* the arguments after the script: none, an empty one, an input with and
\* without -o, -o with and without a file after it, -o in the first place
ArgLists ==
  { <<>>, <<"">>, <<"-o", "out.ts">> }
  \cup UNION { { <<p>>, <<p, "-o", "out.ts">>, <<p, "-o">>, <<"-o", "out.ts", p>> }
              : p \in InputPaths }

\* what the input holds once parsed
Contents == { <<>> } \cup RecursiveSpecs

\* an input that cannot be read, or holds no YAML / JSON, or parses to
\* something that is no spec, or a spec; an output path that can or cannot
\* be written
Worlds ==
  { [readable |-> r, parses |-> p, isSpec |-> k,
     content |-> IF r /\ p /\ k THEN c ELSE <<>>, writable |-> w]
    : r \in BOOLEAN, p \in BOOLEAN, k \in BOOLEAN, c \in Contents, w \in BOOLEAN }

\* args.indexOf(x) + 1 for an x that is among the arguments
indexOf(args, x) ==
  CHOOSE i \in DOMAIN args : args[i] = x /\ \A j \in 1..(i - 1) : args[j] # x

\* args[0], "" standing for undefined
inputFileOf(args) == IF args = <<>> THEN "" ELSE args[1]

\* args.includes("-o") ? args[args.indexOf("-o") + 1] : null, "" standing
\* for null and undefined
outputFileOf(args) ==
  IF "-o" \in Range(args) /\ indexOf(args, "-o") < Len(args)
  THEN args[indexOf(args, "-o") + 1]
  ELSE ""

\* main up to its try block: the arguments are read, and without an input
\* the process exits with 1
Main ==
  /\ pc = "main"
  /\ outputFile' = outputFileOf(argv)
  /\ IF inputFileOf(argv) = ""
     THEN /\ written' = Append(written,
                               [to |-> "stderr",
                                text |-> <<"Please provide an input file or URL.">>])
          /\ exitCode' = 1
          /\ pc' = "exited"
     ELSE /\ pc' = "reading"
          /\ UNCHANGED <<written, exitCode>>
  /\ UNCHANGED <<spec, zodSchemas, todo, dependencyMap, result, generatedSchemas,
                 currentlyGenerating, schemaDefinitions, output, getterCalls,
                 warnings, givenSchemas, returned, instance, parsed, argv,
                 world, call, inserted>>

\* readSpec(inputFile): the content is fetched or read, then parsed by its
\* extension; each of the three may throw
ReadSpec ==
  /\ pc = "reading"
  /\ IF /\ world.readable
        /\ Extension(inputFileOf(argv)) \in {".yaml", ".yml", ".json"}
        /\ world.parses
     THEN /\ spec' = world.content
          /\ pc' = "start"
     ELSE /\ pc' = "failed"
          /\ UNCHANGED spec
  /\ UNCHANGED <<zodSchemas, todo, dependencyMap, result, generatedSchemas,
                 currentlyGenerating, schemaDefinitions, output, getterCalls,
                 warnings>>
  /\ UNCHANGED mainVars

\* codegen over what is no spec: Object.entries(spec.components.schemas) throws
ConvertThrows ==
  /\ pc = "start"
  /\ ~world.isSpec
  /\ pc' = "failed"
  /\ UNCHANGED <<spec, zodSchemas, todo, dependencyMap, result, generatedSchemas,
                 currentlyGenerating, schemaDefinitions, output, getterCalls,
                 warnings>>
  /\ UNCHANGED mainVars

\* fs.writeFileSync(outputFile, code) throws
WriteThrows ==
  /\ pc = "done"
  /\ outputFile # ""
  /\ ~world.writable
  /\ pc' = "failed"
  /\ UNCHANGED <<spec, zodSchemas, todo, dependencyMap, result, generatedSchemas,
                 currentlyGenerating, schemaDefinitions, output, getterCalls,
                 warnings>>
  /\ UNCHANGED mainVars

\* the process from its start, over every command line and every world
MainInit ==
  /\ Fresh
  /\ spec = <<>>
  /\ pc = "main"
  /\ zodSchemas = <<>>
  /\ givenSchemas = <<>>
  /\ outputFile = ""
  /\ instance = NoInstance
  /\ argv \in ArgLists
  /\ world \in Worlds

MainNext ==
  \/ Main
  \/ ReadSpec
  \/ ConvertThrows
  \/ WriteThrows
  \/ UnitNext

MainSpec == MainInit /\ [][MainNext]_vars

\* ------------------------------------------------- what the claims speak of
Done == pc = "done"

DeclaredNames == [i \in DOMAIN schemaDefinitions |-> schemaDefinitions[i].name]

\* the names declared before the i-th declaration
DeclaredBefore(i) == { schemaDefinitions[j].name : j \in 1..(i - 1) }

\* the expression of a declaration: what stands between " = " and ";"
SchemaCode(d) == SubSeq(d.text, 4, Len(d.text) - 1)

DeferOpen == "z.lazy(() => "

\* the names a text uses as a bare identifier
DirectRefs(code) ==
  { n \in Range(zodSchemas) :
      \E p \in DOMAIN code :
        code[p] = Ident(n) /\ (p = 1 \/ code[p - 1] # DeferOpen) }

\* the names a text uses inside the deferred form z.lazy(() => <n>Schema)
DeferredRefs(code) ==
  { n \in Range(zodSchemas) :
      \E p \in DOMAIN code :
        /\ p > 1 /\ p < Len(code)
        /\ code[p - 1] = DeferOpen /\ code[p] = Ident(n) /\ code[p + 1] = ")" }

\* the named schemas the definition of a declared schema references
RefsOf(d) == Range(LazyNames(d.schema))

\* the names reachable from n over at least one reference of the declarations
RECURSIVE ReachFrom(_, _)
ReachFrom(frontier, seen) ==
  LET next == UNION { RefsOf(schemaDefinitions[i]) :
                        i \in { j \in DOMAIN schemaDefinitions :
                                  schemaDefinitions[j].name \in frontier } }
      new == next \ seen
  IN IF new = {} THEN seen ELSE ReachFrom(new, seen \cup new)

OnCycle(n) == n \in ReachFrom({n}, {})

\* no declared schema reaches itself over references
Acyclic == \A i \in DOMAIN schemaDefinitions : ~OnCycle(schemaDefinitions[i].name)

\* the place of a name in a sequence of names, 0 when it is absent
PlaceIn(s, n) == IF n \in Range(s) THEN CHOOSE i \in DOMAIN s : s[i] = n ELSE 0

NoDuplicates(s) == \A i, j \in DOMAIN s : s[i] = s[j] => i = j

\* C1: while a declaration is rendered, a referenced name is written as a
\* bare identifier only when its declaration was emitted earlier, and as the
\* deferred form z.lazy(() => XSchema) when it is the name being rendered or
\* one declared later: no declaration uses an identifier not yet declared.
C1_NoForwardIdentifier ==
  \A i \in DOMAIN schemaDefinitions :
    LET d == schemaDefinitions[i]
        code == SchemaCode(d)
    IN /\ DirectRefs(code) \subseteq DeclaredBefore(i)
       /\ DirectRefs(code) \subseteq generatedSchemas
       /\ \A x \in RefsOf(d) :
            IF x \in DeclaredBefore(i)
            THEN x \in DirectRefs(code) /\ x \notin DeferredRefs(code)
            ELSE x \in DeferredRefs(code) /\ x \notin DirectRefs(code)

C1_Witness ==
  /\ Done
  /\ \E i, j \in DOMAIN schemaDefinitions :
       /\ schemaDefinitions[i].name \in DeferredRefs(SchemaCode(schemaDefinitions[i]))
       /\ \E x \in DeferredRefs(SchemaCode(schemaDefinitions[i])) :
            PlaceIn(DeclaredNames, x) > i
       /\ DirectRefs(SchemaCode(schemaDefinitions[j])) # {}

\* C2: when no named schema reaches itself over references, every referenced
\* schema is declared before each schema referencing it, every reference is a
\* bare identifier, and the output holds no z.lazy wrapper.
C2_AcyclicNeedsNoLazy ==
  (Done /\ Acyclic) =>
    /\ \A i \in DOMAIN schemaDefinitions :
         /\ RefsOf(schemaDefinitions[i]) \subseteq DeclaredBefore(i)
         /\ RefsOf(schemaDefinitions[i])
              = DirectRefs(SchemaCode(schemaDefinitions[i]))
    /\ DeferOpen \notin Range(output)

\* an acyclic spec that declares a schema before one it references
C2_Witness ==
  /\ Done /\ Acyclic
  /\ \E i, j \in DOMAIN spec :
       /\ i < j
       /\ spec[j][1] \in UNION { RefsOf(schemaDefinitions[k]) :
                                   k \in { m \in DOMAIN schemaDefinitions :
                                             schemaDefinitions[m].name = spec[i][1] } }
  /\ Len(schemaDefinitions) = MaxSchemas

\* the references between the named schemas of the input form a cycle
RECURSIVE InputReach(_, _)
InputReach(frontier, seen) ==
  LET next == UNION { Range(LazyNames(Getter(n, spec, convert(spec)))) : n \in frontier }
      new == next \ seen
  IN IF new = {} THEN seen ELSE InputReach(new, seen \cup new)

CyclicInput == \E n \in Range(convert(spec)) : n \in InputReach({n}, {})

\* what is left of the run: the phases ahead and the entries the running loop
\* has still to visit
Remaining ==
  LET width == Len(spec) + 1
  IN CASE pc = "start" -> 5 * width
       [] pc = "converted" -> 4 * width
       [] pc = "analysing" -> 3 * width + Len(todo)
       [] pc = "sequencing" -> 2 * width + Len(dependencyMap)
       [] pc = "generating" -> width + Len(todo)
       [] OTHER -> 0

\* the run has ended, or the step its position calls for changes the state:
\* a turn of the sequencer's loop takes at least one entry out of the map
CanStep ==
  \/ pc \in {"done", "failed", "start", "converted", "generating"}
  \/ pc = "analysing" /\ todo # <<>>
  \/ pc = "sequencing" /\ dependencyMap = <<>>
  \/ /\ pc = "sequencing" /\ dependencyMap # <<>>
     /\ LET r == processElement([map |-> dependencyMap, result |-> result, count |-> 0],
                                Len(result), dependencyMap[1][1])
        IN r.count >= 1 /\ Len(r.map) = Len(dependencyMap) - r.count

\* C3: for a spec whose named schemas form reference cycles (a self-loop, a
\* 2-cycle, a longer one, several sharing a schema) codegen terminates: short
\* of its end the run is never stuck, and every step lowers the bounded count
\* of what is left of the run.
C3_CyclicTerminates ==
  /\ [](CyclicInput => CanStep)
  /\ [][CyclicInput => Remaining' < Remaining]_vars

\* a run over a cycle through every schema has returned
C3_Witness ==
  /\ Done /\ CyclicInput
  /\ Len(schemaDefinitions) = MaxSchemas
  /\ \A i \in DOMAIN schemaDefinitions :
       ReachFrom({schemaDefinitions[i].name}, {}) = Range(DeclaredNames)

\* C4: the sequencer's list is a permutation of the dependency map's original
\* keys: while it runs, the placed names and the names left in the map
\* partition them, and when it returns every key is in the list just once.
C4_SequenceIsPermutation ==
  (pc \in {"sequencing", "generating", "done"}) =>
    /\ NoDuplicates(result)
    /\ Range(result) \cap Range(Keys(dependencyMap)) = {}
    /\ Range(result) \cup Range(Keys(dependencyMap)) = Range(zodSchemas)
    /\ (pc # "sequencing" => Len(result) = Len(zodSchemas))

\* a returned sequence over a map with a self-edge and a repeated dependency
C4_Witness ==
  /\ pc = "generating" /\ todo = result /\ Len(result) = MaxSchemas
  /\ \E i \in DOMAIN spec :
       /\ isObjectSchema(spec[i][2])
       /\ Len(spec[i][2].properties) >= 2
       /\ \E j, k \in DOMAIN spec[i][2].properties :
            j # k /\ spec[i][2].properties[j][2] = Ref(spec[i][1])
  /\ result # convert(spec)

\* C5: two named schemas that reference each other are both declared, and at
\* least one of the two declarations holds the deferred form of the other.
C5_TwoCycleDeferred ==
  Done =>
    \A i, j \in DOMAIN schemaDefinitions :
      LET a == schemaDefinitions[i]
          b == schemaDefinitions[j]
      IN (i # j /\ b.name \in RefsOf(a) /\ a.name \in RefsOf(b)) =>
           /\ a.text # <<>> /\ b.text # <<>>
           /\ \/ b.name \in DeferredRefs(SchemaCode(a))
              \/ a.name \in DeferredRefs(SchemaCode(b))

C5_Witness ==
  /\ Done
  /\ \E i, j \in DOMAIN schemaDefinitions :
       /\ i < j
       /\ schemaDefinitions[j].name \in DeferredRefs(SchemaCode(schemaDefinitions[i]))
       /\ schemaDefinitions[i].name \in DirectRefs(SchemaCode(schemaDefinitions[j]))

\* the places of the output where a declaration starts
ExportPlaces == { p \in DOMAIN output : output[p] = "export const " }

\* C6: the returned text is the import preamble followed by one
\* `export const <name>Schema = <expr>;` per named schema of the registry, in
\* the sequencer's order, separated by blank lines; none skipped, none twice.
C6_OutputShape ==
  Done =>
    /\ SubSeq(output, 1, Len(imports)) = imports
    /\ Cardinality(ExportPlaces) = Len(zodSchemas)
    /\ \A n \in Range(zodSchemas) :
         Cardinality({ p \in ExportPlaces : output[p + 1] = Ident(n) }) = 1
    /\ \A p, q \in ExportPlaces :
         p < q => \E i, j \in DOMAIN result :
                    i < j /\ output[p + 1] = Ident(result[i])
                          /\ output[q + 1] = Ident(result[j])
    /\ \A p \in ExportPlaces :
         /\ output[p + 2] = " = "
         /\ \/ p = Len(imports) + 1
            \/ SubSeq(output, p - 3, p - 1) = <<";", NL, NL>>
    /\ (zodSchemas # <<>> => Last(output) = ";")
    /\ Cardinality({ p \in DOMAIN output : output[p] = ";" }) = Len(zodSchemas)

C6_Witness == Done /\ Len(zodSchemas) = MaxSchemas /\ result # zodSchemas

\* the definition the input gives a name
DefOf(name) == SpecSchema(spec, name)

\* the names of the input, in declaration order
InputNames == Keys(spec)

\* C7 as amended: convert registers, as a z.lazy over the conversion of its
\* definition, every name of components.schemas whose definition is present,
\* and only those, in declaration order; a name whose definition is undefined
\* or null is left out of the map and of items.
C7_DefinedNamesRegistered ==
  pc # "start" =>
    /\ zodSchemas = SelectSeq(InputNames, LAMBDA n : Truthy(DefOf(n)))
    /\ \A i \in DOMAIN schemaDefinitions :
         schemaDefinitions[i].name \in Range(InputNames)

\* convert has run on a spec with a name that has no definition, followed by
\* names that have one
C7_Witness ==
  /\ pc = "converted"
  /\ \E i, j \in DOMAIN spec :
       i < j /\ ~Truthy(spec[i][2]) /\ Truthy(spec[j][2])
  /\ Len(zodSchemas) >= 2

\* C7 as claimed: every name of the input is registered, unconditionally
C7_EveryNameRegistered == pc # "start" => zodSchemas = InputNames

\* a definition that convertSchema hands to convertObjectSchema
PlainObject(def) ==
  /\ Truthy(def) /\ isObjectSchema(def)
  /\ ~isRefSchema(def) /\ ~isAllOfSchema(def)
  /\ ~isAnyOfSchema(def) /\ ~isOneOfSchema(def)

DeclaredProperties(def) == IF Has(def, "properties") THEN def.properties ELSE <<>>

RequiredNames(def) == IF Has(def, "required") THEN Range(def.required) ELSE {}

RECURSIVE SplitLines(_)
\* the lines of a text
SplitLines(code) ==
  IF code = <<>> THEN << <<>> >>
  ELSE LET front == SplitLines(SubSeq(code, 1, Len(code) - 1))
       IN IF Last(code) = NL THEN Append(front, <<>>)
          ELSE [front EXCEPT ![Len(front)] = Append(@, Last(code))]

\* a line of an object literal without the comma that ends it
WithoutComma(line) ==
  IF line # <<>> /\ Last(line) = "," THEN SubSeq(line, 1, Len(line) - 1) ELSE line

\* the line is `  key: value` for this key
IsPropertyLine(line, key) ==
  /\ Len(line) >= 4
  /\ line[1] = "  "
  /\ \/ line[2] = key /\ line[3] = ": "
     \/ SubSeq(line, 2, 5) = <<"\"", key, "\"", ": ">>

\* the object a declaration holds, under the Nullable of a nullable definition
ObjectOf(d) ==
  IF IsNullable(DefOf(d.name)) THEN d.schema.inner ELSE d.schema

\* the declaration of an object schema holds these properties, in this order,
\* optional (in the schema and in the text) exactly when not required
RendersProperties(d, props) ==
  LET def == DefOf(d.name)
      obj == ObjectOf(d)
      lines == SplitLines(SchemaCode(d))
  IN /\ obj.kind = "object"
     /\ Keys(obj.shape) = Keys(props)
     /\ \A i \in DOMAIN obj.shape :
          (obj.shape[i][2].kind = "optional") <=> (obj.shape[i][1] \notin RequiredNames(def))
     /\ props # <<>> =>
          /\ Len(lines) = Len(props) + 2
          /\ \A i \in DOMAIN props :
               /\ IsPropertyLine(lines[i + 1], props[i][1])
               /\ (Last(WithoutComma(lines[i + 1])) = ".optional()")
                    <=> (props[i][1] \notin RequiredNames(def))

\* C8 as amended: of an object schema, every declared property that has a
\* definition is converted, and rendered without the optional modifier when
\* its name is in the required list and with .optional() otherwise, in the
\* declared order; a property whose value is undefined or null is left out.
C8_RequiredElseOptional ==
  \A i \in DOMAIN schemaDefinitions :
    LET d == schemaDefinitions[i]
        def == DefOf(d.name)
    IN PlainObject(def) =>
         RendersProperties(d, SelectSeq(DeclaredProperties(def),
                                        LAMBDA p : Truthy(p[2])))

\* an object with a required and a non-required property has been rendered
C8_Witness ==
  /\ Done
  /\ \E i \in DOMAIN schemaDefinitions :
       LET def == DefOf(schemaDefinitions[i].name)
       IN /\ PlainObject(def) /\ IsNullable(def)
          /\ Len(DeclaredProperties(def)) >= 2
          /\ \A p \in Range(DeclaredProperties(def)) : Truthy(p[2])
          /\ \E p, q \in Range(DeclaredProperties(def)) :
               p[1] \in RequiredNames(def) /\ q[1] \notin RequiredNames(def)

\* C8 as claimed: every declared property is converted and rendered
C8_EveryDeclaredProperty ==
  \A i \in DOMAIN schemaDefinitions :
    LET d == schemaDefinitions[i]
        def == DefOf(d.name)
    IN PlainObject(def) => RendersProperties(d, DeclaredProperties(def))

\* a definition that convertSchema hands to handleAllOf
AllOfNode(def) == Truthy(def) /\ ~isRefSchema(def) /\ isAllOfSchema(def)

\* the object-typed members of an allOf list, by index
ObjectMembers(members) == { i \in DOMAIN members : isObjectSchema(members[i]) }

\* the union of the object-typed members' property mappings: every key once,
\* at the place of its first declaration, with the value of its last one
UnionOfProperties(members) ==
  LET declares(i, k) ==
        i \in ObjectMembers(members) /\ HasKey(DeclaredProperties(members[i]), k)
      allKeys ==
        Distinct(Flat([i \in DOMAIN members |->
                         IF i \in ObjectMembers(members)
                         THEN Keys(DeclaredProperties(members[i])) ELSE <<>>]))
      lastOf(k) ==
        CHOOSE i \in DOMAIN members :
          declares(i, k) /\ \A j \in DOMAIN members : declares(j, k) => j <= i
  IN [n \in DOMAIN allKeys |->
        <<allKeys[n], Lookup(DeclaredProperties(members[lastOf(allKeys[n])]), allKeys[n])>>]

\* the object-typed members' required lists, one after the other
ConcatOfRequired(members) ==
  Flat([i \in DOMAIN members |->
          IF i \in ObjectMembers(members) /\ Has(members[i], "required")
          THEN members[i].required ELSE <<>>])

\* C9: an allOf list converts to the object conversion of the union of its
\* object-typed members' properties (a later member overwrites an earlier
\* one's property of the same name) with the concatenation of their required
\* lists; members that are not object-typed contribute nothing.
C9_AllOfMerges ==
  \A i \in DOMAIN schemaDefinitions :
    LET d == schemaDefinitions[i]
        def == DefOf(d.name)
    IN AllOfNode(def) =>
         /\ d.schema.kind = "object"
         /\ d.schema =
              convertObjectSchema([type |-> "object",
                                   properties |-> UnionOfProperties(def.allOf),
                                   required |-> ConcatOfRequired(def.allOf)],
                                  spec, zodSchemas)
         /\ Range(Keys(d.schema.shape))
              \subseteq UNION { Range(Keys(DeclaredProperties(def.allOf[m]))) :
                                  m \in ObjectMembers(def.allOf) }

\* two object-typed members declaring the same property differently merged
C9_Witness ==
  /\ Done
  /\ \E i \in DOMAIN schemaDefinitions :
       LET def == DefOf(schemaDefinitions[i].name)
       IN /\ AllOfNode(def) /\ Len(def.allOf) = 2
          /\ ObjectMembers(def.allOf) = {1, 2}
          /\ \E k \in Range(Keys(schemaDefinitions[i].schema.shape)) :
               /\ HasKey(DeclaredProperties(def.allOf[1]), k)
               /\ HasKey(DeclaredProperties(def.allOf[2]), k)
               /\ Lookup(def.allOf[1].properties, k) # Lookup(def.allOf[2].properties, k)

\* a definition that convertSchema hands to handleAnyOf, and its member list
AnyOfNode(def) ==
  /\ Truthy(def) /\ ~isRefSchema(def) /\ ~isAllOfSchema(def)
  /\ (isAnyOfSchema(def) \/ isOneOfSchema(def))

MembersOf(def) == IF isAnyOfSchema(def) THEN def.anyOf ELSE def.oneOf

\* C10: anyOf and oneOf convert alike, by member count: none gives Never
\* (z.never()), one gives that member's conversion itself, two or more give
\* the Union of the members' conversions in source order.
C10_AnyOfByCount ==
  \A i \in DOMAIN schemaDefinitions :
    LET d == schemaDefinitions[i]
        def == DefOf(d.name)
        members == MembersOf(def)
        converted == [m \in DOMAIN members |-> convertSchema(members[m], spec, zodSchemas)]
        code == SchemaCode(d)
    IN AnyOfNode(def) =>
         /\ Len(members) = 0 => d.schema = ZNever /\ code = <<"z.never()">>
         /\ Len(members) = 1 =>
              /\ d.schema = converted[1]
              /\ "z.union([" \notin Range(code)
         /\ Len(members) >= 2 =>
              /\ d.schema.kind = "union"
              /\ d.schema.options = converted
              /\ Head(code) = "z.union([" /\ Last(code) = "])"

\* a oneOf of a single member has been converted and rendered
C10_Witness ==
  /\ Done
  /\ \E i \in DOMAIN schemaDefinitions :
       LET def == DefOf(schemaDefinitions[i].name)
       IN /\ AnyOfNode(def) /\ isOneOfSchema(def)
          /\ Len(def.oneOf) = 1
          /\ schemaDefinitions[i].schema.kind = "lazy"

\* the declarations of the names the input defines
Declared == { i \in DOMAIN schemaDefinitions :
                Truthy(DefOf(schemaDefinitions[i].name)) }

\* a node without some of its keys
Without(def, keys) == [k \in DOMAIN def \ keys |-> def[k]]

\* C11: every node with nullable: true, whatever its kind ($ref, allOf,
\* anyOf / oneOf, object, array, string with or without enum, number,
\* boolean, unmatched), converts to Nullable(inner): the conversion of the
\* node without the flag, wrapped in a Nullable that is outermost.
C11_NullableWrapsEveryKind ==
  \A i \in Declared :
    LET d == schemaDefinitions[i]
        def == DefOf(d.name)
    IN IsNullable(def) =>
         /\ d.schema =
              ZNullable(convertSchema(Without(def, {"nullable"}), spec, zodSchemas))
         /\ Last(SchemaCode(d)) = ".nullable()"

\* the keyword of a node that convertSchema tests first, "" when it has none
FirstKeyword(def) ==
  IF Has(def, "ref") THEN "ref"
  ELSE IF Has(def, "allOf") THEN "allOf"
  ELSE IF Has(def, "anyOf") THEN "anyOf"
  ELSE IF Has(def, "oneOf") THEN "oneOf"
  ELSE IF Has(def, "type")
          /\ def.type \in {"object", "array", "string", "number", "integer", "boolean"}
  THEN "type"
  ELSE ""

\* the dispatch keywords that come after a keyword in the precedence
LaterKeywords(k) ==
  CASE k = "ref" -> {"allOf", "anyOf", "oneOf", "type"}
    [] k = "allOf" -> {"anyOf", "oneOf", "type"}
    [] k = "anyOf" -> {"oneOf", "type"}
    [] k = "oneOf" -> {"type"}
    [] OTHER -> {}

\* the schema under the Nullable and Optional wrappers
RECURSIVE Unwrapped(_)
Unwrapped(z) ==
  IF z.kind \in {"nullable", "optional"} THEN Unwrapped(z.inner) ELSE z

\* the kinds of validator a keyword's conversion may give
KindsOf(def) ==
  LET k == FirstKeyword(def)
  IN CASE k = "ref" -> {"lazy", "unknown"}
       [] k = "allOf" -> {"object"}
       [] k \in {"anyOf", "oneOf"} ->
            IF Len(def[k]) = 0 THEN {"never"}
            ELSE IF Len(def[k]) >= 2 THEN {"union"}
            ELSE {"object", "array", "union", "string", "number", "boolean",
                  "enum", "literal", "lazy", "never", "unknown"}
       [] k = "type" ->
            CASE def.type = "object" -> {"object"}
              [] def.type = "array" -> {"array"}
              [] def.type = "string" -> {"string", "enum", "literal"}
              [] def.type \in {"number", "integer"} -> {"number"}
              [] OTHER -> {"boolean"}
       [] OTHER -> {"unknown"}

\* C12: convertSchema dispatches on the first keyword that matches, in the
\* order $ref, allOf, anyOf, oneOf, object, array, string, number / integer,
\* boolean: a node matching several converts as the node holding the
\* earliest alone does, and a node matching none converts to Unknown.
C12_FirstKeywordDecides ==
  \A i \in Declared :
    LET d == schemaDefinitions[i]
        def == DefOf(d.name)
        first == FirstKeyword(def)
    IN givenSchemas = <<>> =>
         /\ d.schema =
              convertSchema(Without(def, LaterKeywords(first)), spec, zodSchemas)
         /\ Unwrapped(d.schema).kind \in KindsOf(def)
         /\ first = "" => d.schema = ZUnknown /\ SchemaCode(d) = <<"z.unknown()">>

\* a node holding every dispatch keyword at once has been converted
C12_Witness ==
  /\ Done
  /\ \E i \in Declared :
       LET def == DefOf(schemaDefinitions[i].name)
       IN /\ {"ref", "allOf", "anyOf", "oneOf", "type"} \subseteq DOMAIN def
          /\ schemaDefinitions[i].schema = ZLazy("B")
  /\ \E j \in Declared : FirstKeyword(DefOf(schemaDefinitions[j].name)) = "type"

\* a $ref whose target the input does not define
RefToMissing(node) ==
  /\ Truthy(node) /\ Has(node, "ref")
  /\ ~Truthy(DefOf(RefName(node.ref)))

RECURSIVE HasUnknownCheck(_)
HasUnknownCheck(z) ==
  IF z.kind = "string"
  THEN \E c \in Range(z.checks) : c.kind \notin {"min", "max", "date"}
  ELSE IF z.kind = "object"
  THEN \E i \in DOMAIN z.shape : HasUnknownCheck(z.shape[i][2])
  ELSE IF z.kind = "array" THEN HasUnknownCheck(z.element)
  ELSE IF z.kind = "union"
  THEN \E i \in DOMAIN z.options : HasUnknownCheck(z.options[i])
  ELSE IF z.kind \in {"nullable", "optional"} THEN HasUnknownCheck(z.inner)
  ELSE FALSE

\* the registry holds a schema with such a check
Unrenderable ==
  \E i \in DOMAIN givenSchemas : HasUnknownCheck(givenSchemas[i][2])

\* C14: when rendering meets a string check of an unrecognized kind,
\* generation aborts with an error and there is no output at all: codegen
\* returns no text, not even the declarations rendered before the failing
\* one, nothing is rendered after it, and main writes no code and exits
\* with a non-zero code.
C14_UnknownCheckAborts ==
  Unrenderable =>
    /\ output = <<>>
    /\ pc # "done"
    /\ ~(pc = "generating" /\ todo = <<>>)
    /\ \A i \in DOMAIN schemaDefinitions :
         ~HasUnknownCheck(schemaDefinitions[i].schema)
    /\ \A i \in DOMAIN written : written[i].to = "stderr"
    /\ pc = "exited" =>
         /\ exitCode # 0
         /\ written # <<>>
         /\ Len(schemaDefinitions) < Len(zodSchemas)

\* main has exited after a failure in the second declaration, the first
\* one rendered, with an output file named
C14_Witness ==
  /\ pc = "exited" /\ Unrenderable
  /\ Len(schemaDefinitions) = 1
  /\ schemaDefinitions[1].text # <<>>
  /\ outputFile = "out.ts"
  /\ exitCode = 1

\* a definition that convertSchema hands to convertStringSchema
StringNode(def) == FirstKeyword(def) = "type" /\ def.type = "string"

\* the checks the claim gives a string schema: min, max, date, in this order
ClaimedChecks(def) ==
  (IF Has(def, "minLength") THEN << [kind |-> "min", value |-> def.minLength] >>
   ELSE <<>>)
  \o (IF Has(def, "maxLength") THEN << [kind |-> "max", value |-> def.maxLength] >>
      ELSE <<>>)
  \o (IF Has(def, "format") /\ def.format = "date" THEN << [kind |-> "date"] >>
      ELSE <<>>)

\* the text the claim gives such a string schema
ClaimedStringCode(def) ==
  <<"z.string()">>
  \o (IF Has(def, "minLength") THEN <<".min(", ToString(def.minLength), ")">>
      ELSE <<>>)
  \o (IF Has(def, "maxLength") THEN <<".max(", ToString(def.maxLength), ")">>
      ELSE <<>>)
  \o (IF Has(def, "format") /\ def.format = "date" THEN <<".date()">> ELSE <<>>)

\* C15: a string schema without enum converts to a String that carries its
\* minLength, maxLength and date format, and renders as z.string() followed
\* by .min(n), .max(m) and .date(), in this order, for those it has.
C15_StringCarriesConstraints ==
  \A i \in Declared :
    LET d == schemaDefinitions[i]
        def == DefOf(d.name)
    IN (StringNode(def) /\ ~Has(def, "enum")) =>
         /\ Unwrapped(d.schema) = ZStringWith(ClaimedChecks(def))
         /\ SelectSeq(SchemaCode(d), LAMBDA t : t # ".nullable()")
              = ClaimedStringCode(def)

\* C16: a string schema whose enum has exactly one value v converts to
\* Literal(v), never to a one-value Enum; a one-value Enum handed to the
\* generator renders as the Literal does, z.literal("v"); an enum of more
\* values renders as z.enum([...]) with every value quoted, in source order.
C16_SingleEnumIsLiteral ==
  \A i \in DOMAIN schemaDefinitions :
    LET d == schemaDefinitions[i]
        def == DefOf(d.name)
        code == SchemaCode(d)
    IN /\ (Truthy(def) /\ StringNode(def) /\ Has(def, "enum")) =>
            /\ Len(def.enum) = 1 => d.schema = ZLiteral(def.enum[1])
            /\ Len(def.enum) > 1 => d.schema = ZEnum(def.enum)
            /\ Len(def.enum) > 0 => d.schema.kind \in {"literal", "enum"}
       /\ d.schema.kind = "literal" =>
            code = <<"z.literal(", "\"", d.schema.value, "\"", ")">>
       /\ d.schema.kind = "enum" =>
            /\ Len(d.schema.values) = 1 =>
                 /\ givenSchemas # <<>>
                 /\ code = <<"z.literal(", "\"", d.schema.values[1], "\"", ")">>
            /\ Len(d.schema.values) > 1 =>
                 /\ Head(code) = "z.enum([" /\ Last(code) = "])"
                 /\ SelectSeq(code, LAMBDA t : t \notin {"z.enum([", "])", "\"", ", "})
                      = d.schema.values
                 /\ Len(code) = 4 * Len(d.schema.values) + 1
                 /\ \A j \in DOMAIN d.schema.values :
                      SubSeq(code, 4 * j - 2, 4 * j)
                        = <<"\"", d.schema.values[j], "\"">>

\* a string schema with a one-value enum has been converted and rendered
C16_Witness ==
  /\ Done
  /\ \E i \in Declared :
       LET def == DefOf(schemaDefinitions[i].name)
       IN /\ StringNode(def) /\ Has(def, "enum") /\ Len(def.enum) = 1
          /\ schemaDefinitions[i].schema.kind = "literal"

\* the object an option of a union stands for: itself, or the named schema
\* it references
OptionObject(member) ==
  IF Has(member, "ref") THEN DefOf(RefName(member.ref)) ELSE member

\* the option is an object with a one-value enum string under this key
HoldsTag(member, key) ==
  LET o == OptionObject(member)
  IN /\ Truthy(o) /\ PlainObject(o)
     /\ HasKey(DeclaredProperties(o), key)
     /\ LET p == Lookup(DeclaredProperties(o), key)
        IN Truthy(p) /\ StringNode(p) /\ Has(p, "enum") /\ Len(p.enum) = 1

\* the keys under which every option of the list holds such a tag
TagKeys(members) ==
  { k \in UNION { Range(Keys(DeclaredProperties(OptionObject(members[j])))) :
                   j \in { m \in DOMAIN members :
                             Truthy(OptionObject(members[m]))
                             /\ PlainObject(OptionObject(members[m])) } } :
      \A j \in DOMAIN members : HoldsTag(members[j], k) }

\* C17: a union of two or more options renders as
\* z.discriminatedUnion("<key>", [...]) when every option, an inline object
\* or a reference to a named object schema, holds a one-value literal under
\* the same key, and as a plain z.union([...]) otherwise.
C17_DiscriminatedUnion ==
  \A i \in Declared :
    LET d == schemaDefinitions[i]
        def == DefOf(d.name)
        code == SchemaCode(d)
    IN (FirstKeyword(def) \in {"anyOf", "oneOf"} /\ Len(MembersOf(def)) >= 2) =>
         IF TagKeys(MembersOf(def)) # {}
         THEN /\ Head(code) = "z.discriminatedUnion("
              /\ \E k \in TagKeys(MembersOf(def)) : code[3] = k
         ELSE Head(code) = "z.union(["

\* C18: codegen is deterministic: a second run on the same spec returns the
\* text the first one returned, token for token, and so the same order of
\* declarations and the same direct or deferred form of every reference.
C18_SameInputSameOutput ==
  (Done /\ returned # <<>>) => returned[1] = output

\* the second run over a spec with a cycle and a forward reference returned
C18_Witness ==
  /\ Done /\ returned # <<>>
  /\ Len(schemaDefinitions) = MaxSchemas
  /\ DeferOpen \in Range(output)
  /\ result # zodSchemas

\* how many times the getter of a name ran: each run converts its definition
Conversions(name) ==
  Cardinality({ i \in DOMAIN getterCalls : getterCalls[i] = name })

\* how many $ref occurrences the declared schemas hold of a name
Occurrences(name) ==
  LET all == Flat([i \in DOMAIN schemaDefinitions |->
                     LazyNames(schemaDefinitions[i].schema)])
  IN Cardinality({ i \in DOMAIN all : all[i] = name })

\* C20 as amended: within one run each distinct named schema is registered a
\* single time, as one lazy, however many $ref occurrences point to it, and
\* its definition is converted once for each resolution of that lazy: once by
\* the dependency analysis and once more by the rendering of its
\* declaration, twice in a run of codegen.
C20_ConvertedPerResolution ==
  /\ NoDuplicates(zodSchemas)
  /\ \A n \in Range(zodSchemas) :
       Conversions(n)
         = (IF pc = "converted" \/ (pc = "analysing" /\ n \in Range(todo))
            THEN 0 ELSE 1)
           + (IF \E i \in DOMAIN schemaDefinitions :
                   schemaDefinitions[i].name = n /\ schemaDefinitions[i].text # <<>>
              THEN 1 ELSE 0)
  /\ Done => \A n \in Range(zodSchemas) : Conversions(n) = 2
  /\ Range(getterCalls) \subseteq Range(zodSchemas)

\* a schema that several $ref point to has been declared
C20_Witness ==
  /\ Done
  /\ \E n \in Range(zodSchemas) : Occurrences(n) >= 3 /\ Conversions(n) = 2

\* C20 as claimed: the definition of a named schema is converted a single
\* time in a run, however many times its lazy is resolved
C20_ConvertedOnce == \A n \in Range(zodSchemas) : Conversions(n) <= 1

RECURSIVE Complete(_, _)
\* every object of the value, at every level, holds the properties its
\* schema requires
Complete(node, value) ==
  IF isRefSchema(node) THEN Complete(DefOf(RefName(node.ref)), value)
  ELSE IF isObjectSchema(node)
  THEN /\ \A k \in RequiredNames(node) : HasKey(value.fields, k)
       /\ \A i \in DOMAIN value.fields :
            Complete(Lookup(node.properties, value.fields[i][1]),
                     value.fields[i][2])
  ELSE IF isArraySchema(node)
  THEN \A i \in DOMAIN value.items : Complete(node.items, value.items[i])
  ELSE TRUE

RECURSIVE Depth(_)
\* the levels of objects of a value
Depth(value) ==
  IF value.t = "object"
  THEN 1 + (IF \E i \in DOMAIN value.fields : Depth(value.fields[i][2]) > 0
            THEN CHOOSE m \in 1..MaxDepth :
                   /\ \E i \in DOMAIN value.fields : Depth(value.fields[i][2]) = m
                   /\ \A i \in DOMAIN value.fields : Depth(value.fields[i][2]) <= m
            ELSE 0)
  ELSE IF value.t = "array" /\ value.items # <<>> THEN Depth(value.items[1])
  ELSE 0

\* C19: over object schemas that reference themselves or each other (Unit
\* with a required uid and an optional parentUnit: $ref Unit), the validation
\* of a finite nested instance ends, with success when every nested object
\* holds its required properties and with failure when one is missing at
\* any level.
C19_RecursiveValidation ==
  /\ (pc = "converted" /\ instance # NoInstance) =>
       safeParse(ZLazy(instance.root), instance.value, spec, zodSchemas)
         \in BOOLEAN
  /\ pc = "validated" =>
       /\ parsed \in {"success", "failure"}
       /\ parsed = "success" <=> Complete(Ref(instance.root), instance.value)

\* an instance of three levels that lacks the required property only at
\* the innermost one has been refused
C19_Witness ==
  /\ pc = "validated" /\ parsed = "failure"
  /\ Depth(instance.value) = MaxDepth
  /\ HasKey(instance.value.fields, "uid")
  /\ HasKey(Lookup(instance.value.fields, "parentUnit").fields, "uid")

\* the run meets one of main's errors: no input argument, an input that
\* cannot be read, an extension readSpec does not know, content that does not
\* parse, content that is no spec, an output file that cannot be written
MeetsError ==
  \/ inputFileOf(argv) = ""
  \/ ~world.readable
  \/ Extension(inputFileOf(argv)) = ""
  \/ ~world.parses
  \/ ~world.isSpec
  \/ outputFileOf(argv) # "" /\ ~world.writable

\* what main wrote to files, standard output left aside
FilesWritten ==
  SelectSeq(written, LAMBDA w : w.to \notin {"stdout", "stderr"})

\* C22: the command exits with a non-zero status on every error (no input
\* argument, unreadable input, unsupported extension, parse failure,
\* generation failure) and then has written no file; without an error it
\* exits with 0 having written the generated text to the file after -o when
\* there is one, and to standard output otherwise.
C22_ExitStatusAndOutput ==
  pc = "exited" =>
    IF MeetsError
    THEN exitCode # 0 /\ FilesWritten = <<>>
    ELSE /\ exitCode = 0
         /\ output # <<>>
         /\ IF outputFileOf(argv) # ""
            THEN /\ FilesWritten = << [to |-> outputFileOf(argv), text |-> output] >>
                 /\ \A i \in DOMAIN written : written[i].text = output => written[i].to # "stdout"
            ELSE written = << [to |-> "stdout", text |-> output] >>

\* a run with -o over content that does not parse has exited
C22_Witness ==
  /\ pc = "exited" /\ exitCode = 1
  /\ outputFile = "out.ts"
  /\ world.readable /\ ~world.parses /\ world.writable
  /\ Extension(inputFileOf(argv)) = ".json"
  /\ FilesWritten = <<>>

\* the sequencer has just returned its list
Sequenced == pc = "generating" /\ todo = result

\* the dependency list the analysis computed for a registered name
DependenciesOf(n) == getReferencingSchemaNames(n, spec, zodSchemas)

\* the references, as <<source, place in its dependency list>>, whose target
\* is another name that the order s places after the source
ForwardReferences(s) ==
  { e \in UNION { { <<n, k>> : k \in DOMAIN DependenciesOf(n) } : n \in Range(s) } :
      LET t == DependenciesOf(e[1])[e[2]]
      IN t # e[1] /\ PlaceIn(s, t) > PlaceIn(s, e[1]) }

\* the orders of the names of a list
OrdersOf(s) ==
  { q \in [DOMAIN s -> Range(s)] : Range(q) = Range(s) }

\* the names n reaches over one or more edges of the computed dependency lists
RECURSIVE DependencyReach(_, _)
DependencyReach(frontier, seen) ==
  LET next == UNION { Range(DependenciesOf(n)) : n \in frontier }
      new == next \ seen
  IN IF new = {} THEN seen ELSE DependencyReach(new, seen \cup new)

\* C21 as claimed: the returned order has the fewest forward references of
\* all orders of the names.
C21_FewestForwardReferences ==
  Sequenced =>
    \A q \in OrdersOf(result) :
      Cardinality(ForwardReferences(result)) <= Cardinality(ForwardReferences(q))

\* C21 as amended: the order is best effort. A reference to another name is
\* left forward only when it lies on a dependency cycle (its target reaches
\* its source again), so a map without cycles gets no forward reference at
\* all; on a map with cycles the count need not be the least.
C21_ForwardOnlyOnCycles ==
  Sequenced =>
    \A e \in ForwardReferences(result) :
      e[1] \in DependencyReach({DependenciesOf(e[1])[e[2]]}, {})

\* a returned order with forward references that another order has fewer of
C21_Witness ==
  /\ Sequenced
  /\ Cardinality(ForwardReferences(result)) = 2
  /\ \E q \in OrdersOf(result) : Cardinality(ForwardReferences(q)) = 1

\* the analysis has visited every registry entry and the sequencer has not
\* yet taken any out of the map
Analysed == pc = "sequencing" /\ Len(dependencyMap) = Len(zodSchemas)

\* an object whose every property is a $ref or an array of a $ref
OnlyReferences(def) ==
  /\ Truthy(def) /\ isObjectSchema(def) /\ Has(def, "properties")
  /\ \A j \in DOMAIN def.properties :
       LET v == def.properties[j][2]
       IN isRefSchema(v) \/ (isArraySchema(v) /\ isRefSchema(v.items))

\* the names such an object references, one per property, in property order
PropertyTargets(def) ==
  [j \in DOMAIN def.properties |->
     LET v == def.properties[j][2]
     IN IF isRefSchema(v) THEN RefName(v.ref) ELSE RefName(v.items.ref)]

\* C23: the dependency list of a named schema N holds exactly the names of
\* the Lazy nodes of N's own converted definition, in traversal order and
\* with repetitions: the body of a Lazy is never expanded, so what N's
\* dependencies reference is not in the list unless N references it too, a
\* schema referencing itself has itself in its list, and a definition without
\* references, or with references to missing names only, has an empty list.
C23_OwnReferencesOnly ==
  \A i \in DOMAIN dependencyMap :
    LET N == dependencyMap[i][1]
        deps == dependencyMap[i][2]
        def == SpecSchema(spec, N)
    IN /\ deps = LazyNames(Getter(N, spec, zodSchemas))
       /\ Range(deps) \subseteq Range(zodSchemas)
       /\ (OnlyReferences(def)
           => deps = SelectSeq(PropertyTargets(def),
                               LAMBDA n : Truthy(SpecSchema(spec, n))))
       /\ (Truthy(def) /\ ~isRefSchema(def) /\ ~Has(def, "properties")
             /\ ~Has(def, "allOf") /\ ~Has(def, "anyOf") /\ ~Has(def, "oneOf")
             /\ ~Has(def, "items")
           => deps = <<>>)

\* an analysed map with a self-edge, a repeated dependency or none, and a
\* schema that does not list what its dependency references
C23_Witness ==
  /\ Analysed
  /\ \E i, j \in DOMAIN dependencyMap :
       /\ i # j
       /\ dependencyMap[j][1] \in Range(dependencyMap[i][2])
       /\ dependencyMap[j][1] \in Range(dependencyMap[j][2])
       /\ \E n \in Range(dependencyMap[j][2]) :
            n \notin Range(dependencyMap[i][2]) /\ n # dependencyMap[i][1]
  /\ \E i \in DOMAIN dependencyMap : dependencyMap[i][2] = <<>>

\* the names reached from the frontier over the entries a map still holds
RECURSIVE MapReach(_, _, _)
MapReach(map, frontier, seen) ==
  LET next == UNION { { d \in Range(Lookup(map, n)) : HasKey(map, d) } : n \in frontier }
      new == next \ seen
  IN IF new = {} THEN seen ELSE MapReach(map, new, seen \cup new)

RECURSIVE BlockOf(_, _)
RECURSIVE BlocksOf(_, _, _)

\* the block of a name: the blocks of its dependencies, each over the map
\* the blocks before it left, then the name; nothing for a name not in the map
BlockOf(map, name) ==
  IF ~HasKey(map, name) THEN <<>>
  ELSE BlocksOf(MapDelete(map, name), Lookup(map, name), 1) \o <<name>>

BlocksOf(map, deps, k) ==
  IF k > Len(deps) THEN <<>>
  ELSE LET block == BlockOf(map, deps[k])
       IN block \o BlocksOf(SelectSeq(map, LAMBDA e : e[1] \notin Range(block)),
                             deps, k + 1)

InProgress ==
  IF pc = "generating" /\ todo # <<>> /\ Head(todo) \notin currentlyGenerating
  THEN currentlyGenerating \cup {Head(todo)}
  ELSE currentlyGenerating

\* C25: all through generateCode the in-progress names and the fully
\* generated names are disjoint, at most one name is in progress, and the
\* fully generated names are the names whose declaration has been emitted, a
\* prefix of the sequence; when generateCode returns no name is in progress
\* and every registry name is fully generated.
C25_GenerationSets ==
  pc \in {"analysing", "sequencing", "generating", "done", "failed"} =>
    /\ currentlyGenerating \cap generatedSchemas = {}
    /\ InProgress \cap generatedSchemas = {}
    /\ Cardinality(currentlyGenerating) <= 1
    /\ Cardinality(InProgress) <= 1
    /\ generatedSchemas = Range(DeclaredNames)
    /\ \A i \in DOMAIN schemaDefinitions : schemaDefinitions[i].text # <<>>
    /\ (pc \in {"generating", "done", "failed"}
         => DeclaredNames = SubSeq(result, 1, Len(DeclaredNames)))
    /\ (pc \in {"analysing", "sequencing"}
         => generatedSchemas = {} /\ currentlyGenerating = {})
    /\ (pc = "done"
         => currentlyGenerating = {} /\ generatedSchemas = Range(zodSchemas))

\* the rendering of the second declaration has thrown: the first name is
\* fully generated, the second is left in progress
C25_Witness ==
  /\ pc = "failed"
  /\ Len(result) = 2
  /\ generatedSchemas = {result[1]}
  /\ currentlyGenerating = {result[2]}

\* convert() has returned and the run has not ended
AfterConvert ==
  pc \in {"converted", "analysing", "sequencing", "generating", "done", "failed"}

\* C26: once convert() has returned the registry stays as it is: however
\* often Lazy nodes are resolved, for analysis or for rendering, and whatever
\* the spec references, missing names included, the registry holds the
\* entries convert() made, and no getter run finds a name to register.
C26_RegistryFrozen ==
  AfterConvert =>
    /\ zodSchemas = convert(spec)
    /\ \A n \in Range(zodSchemas) : GetterRegisters(n, spec, zodSchemas) = <<>>
    /\ \A n \in Range(warnings) : n \notin Range(zodSchemas)

\* a finished run that resolved every entry twice and met a reference to a
\* name without a definition
C26_Witness ==
  /\ Done
  /\ Len(zodSchemas) >= 2
  /\ Len(getterCalls) = 2 * Len(zodSchemas)
  /\ warnings # <<>>
  /\ zodSchemas = convert(spec)

\* the names of the input that have a definition, in the order of the input
DefinedInOrder ==
  LET defined == SelectSeq(spec, LAMBDA e : Truthy(e[2]))
  IN [i \in DOMAIN defined |-> defined[i][1]]

\* no named schema references a named schema
NoDependencies == \A n \in Range(zodSchemas) : DependenciesOf(n) = <<>>

\* C27: when every dependency list is empty the sequencer returns the names
\* in the order of the input, and the declarations are generated in that
\* order; in general a turn of the sequencer's loop leaves the names placed
\* before as they are and appends the picked name after all of them.
C27_SourceOrderKept ==
  /\ []((NoDependencies /\ pc \in {"generating", "done"})
          => /\ result = DefinedInOrder
             /\ (Done => DeclaredNames = DefinedInOrder))
  /\ [][SequenceStep
          => /\ SubSeq(result', 1, Len(result)) = result
             /\ Len(result') > Len(result)
             /\ Last(result') = dependencyMap[1][1]]_vars

\* a finished run over as many schemas as the bound allows, none of which
\* references another
C27_Witness ==
  /\ Done
  /\ NoDependencies
  /\ Len(spec) = MaxSchemas
  /\ DeclaredNames = Keys(spec)
====
